---- MODULE Spec2Model ----
(***************************************************************************)
(* replican-sync: the patch planner (NewPatchPlan), the patch commands and *)
(* the executor (PatchPlan.Exec / Clean) of replican/sync/patch.go, over   *)
(* the local store of replican/fs (Relocate / Resolve) and an indexed      *)
(* source and destination tree.                                            *)
(*                                                                         *)
(* A strong checksum is modelled as the byte stream it digests (an ideal,  *)
(* collision-free digest): a file's strong is its content, a directory's   *)
(* strong is its listing "<strong>\t<d|f>\t<name>\n" per child.  The empty *)
(* file and the empty directory therefore share one strong, as they share  *)
(* one SHA-1.                                                              *)
(***************************************************************************)
EXTENDS Integers, Sequences, FiniteSets, TLC

\* BLOCKSIZE of the fs package, scaled down from 8192 so that files of a
\* few bytes have several blocks.
BLOCKSIZE == 2

\* Largest number of entries of a source / destination tree (single content).
MaxSrcEntries == 5
MaxDstEntries == 3
\* Largest number of entries of a tree of the mixed-content family.
MaxMixEntries == 2
\* Longest file of the single-file family.
MaxLen == 4
\* Longest file of the single-file family whose bytes include 0, where a
\* short block and a full window can share a weak checksum.
MaxZeroLen == 3
\* Largest source size of a FileMatch handed to NotMatched on its own.
MaxSize == 8
\* Longest byte sequence handed to the weak checksum and to IndexFile on
\* their own, and how far above 257 bytes the runs of one byte go.
MaxInput == 5
MaxRun == 2
\* Largest number of entries of a store ReadBlock is called on.
MaxStoreEntries == 2
\* Largest number of entries of the trees that are patched there and back.
MaxRoundEntries == 2
\* Largest number of entries of the trees whose plan is executed twice.
MaxAgainEntries == 2

\* Entry names, in directory iteration order.
NameSeq == <<"a", "b">>
NameSet == {NameSeq[i] : i \in 1..Len(NameSeq)}
\* Names handed out by ioutil.TempFile: RELOC_PREFIX + fresh suffix for
\* relocations, a fresh sibling name for LocalTemp.
RelocNames == <<"_reloc1", "_reloc2", "_reloc3", "_reloc4", "_reloc5", "_reloc6", "_reloc7">>
TempNames == <<"tmp1", "tmp2", "tmp3", "tmp4", "tmp5", "tmp6", "tmp7">>
RelocSet == {RelocNames[i] : i \in 1..Len(RelocNames)}
ListOrder == RelocNames \o NameSeq \o TempNames
NameCode(n) == 96 + (CHOOSE i \in 1..Len(ListOrder) : ListOrder[i] = n)

DirEntry == [kind |-> "dir", data |-> <<>>]
FileEntry(c) == [kind |-> "file", data |-> c]

----------------------------------------------------------------------------
(* Paths and trees.  A tree is a function from the relative paths that    *)
(* exist (the root is <<>>) to entries.                                    *)

Parent(p) == SubSeq(p, 1, Len(p) - 1)
Base(p) == p[Len(p)]
IsPrefix(p, q) == Len(p) <= Len(q) /\ SubSeq(q, 1, Len(p)) = p
Exists(t, p) == p \in DOMAIN t
IsDir(t, p) == p \in DOMAIN t /\ t[p].kind = "dir"
IsFile(t, p) == p \in DOMAIN t /\ t[p].kind = "file"
Children(t, p) == {q \in DOMAIN t : Len(q) = Len(p) + 1 /\ IsPrefix(p, q)}

\* The children of kind k, in iteration order.
RECURSIVE ChildSeq(_, _, _, _)
ChildSeq(t, p, k, i) ==
    IF i > Len(ListOrder) THEN <<>>
    ELSE LET q == Append(p, ListOrder[i])
         IN (IF q \in DOMAIN t /\ t[q].kind = k THEN <<q>> ELSE <<>>)
            \o ChildSeq(t, p, k, i + 1)
SubDirs(t, p) == ChildSeq(t, p, "dir", 1)
Files(t, p) == ChildSeq(t, p, "file", 1)

RECURSIVE Strong(_, _)
RECURSIVE DirContents(_, _, _)
DirContents(t, kids, tag) ==
    IF kids = <<>> THEN <<>>
    ELSE Strong(t, Head(kids)) \o <<9, tag, 9, NameCode(Base(Head(kids))), 10>>
         \o DirContents(t, Tail(kids), tag)
Strong(t, p) ==
    IF t[p].kind = "file" THEN t[p].data
    ELSE DirContents(t, SubDirs(t, p), 100) \o DirContents(t, Files(t, p), 102)

\* Walk: breadth-first (a FIFO "nodestack"), sub-directories before files.
RECURSIVE WalkOrder(_, _)
WalkOrder(t, queue) ==
    IF queue = <<>> THEN <<>>
    ELSE LET p == Head(queue)
         IN <<p>> \o WalkOrder(t, Tail(queue) \o
                (IF t[p].kind = "dir" THEN SubDirs(t, p) \o Files(t, p) ELSE <<>>))

----------------------------------------------------------------------------
(* The bounded universe of trees.                                          *)

AllPaths == {<<>>} \cup {<<n>> : n \in NameSet} \cup {<<n, m>> : n \in NameSet, m \in NameSet}
WellFormed(t) ==
    /\ t[<<>>].kind = "dir"
    /\ \A p \in DOMAIN t \ {<<>>} : Parent(p) \in DOMAIN t /\ t[Parent(p)].kind = "dir"
TreesOver(contents, maxEntries) ==
    UNION { {t \in [S \cup {<<>>} -> {DirEntry} \cup {FileEntry(c) : c \in contents}] : WellFormed(t)} :
            S \in {S \in SUBSET (AllPaths \ {<<>>}) : Cardinality(S) <= maxEntries} }

RECURSIVE SeqsUpTo(_, _)
SeqsUpTo(S, n) ==
    IF n = 0 THEN {<<>>}
    ELSE LET shorter == SeqsUpTo(S, n - 1)
         IN shorter \cup {Append(s, x) : s \in {s \in shorter : Len(s) = n - 1}, x \in S}
OneFile(c) == (<<>> :> DirEntry) @@ (<<"a">> :> FileEntry(c))

\* The families of (source trees, destination trees) the model starts from:
\* trees of one file content, trees of several contents, and a single file
\* "a" of every content up to a length, over the bytes 1, 2 and over 0, 1.
Families ==
    {[src |-> TreesOver({<<1>>}, MaxSrcEntries), dst |-> TreesOver({<<1>>}, MaxDstEntries)],
     [src |-> TreesOver({<<>>, <<1>>, <<2>>}, MaxMixEntries),
      dst |-> TreesOver({<<>>, <<1>>, <<2>>}, MaxMixEntries)],
     [src |-> {OneFile(c) : c \in SeqsUpTo({1, 2}, MaxLen)},
      dst |-> {OneFile(d) : d \in SeqsUpTo({1, 2}, MaxLen + 1)}],
     [src |-> {OneFile(c) : c \in SeqsUpTo({0, 1}, MaxZeroLen)},
      dst |-> {OneFile(d) : d \in SeqsUpTo({0, 1}, MaxZeroLen)}]}

----------------------------------------------------------------------------
(* Weak rolling checksum and file indexing.                                *)

RECURSIVE BitOr(_, _)
BitOr(x, y) ==
    IF x = 0 THEN y ELSE IF y = 0 THEN x
    ELSE (IF x % 2 = 1 \/ y % 2 = 1 THEN 1 ELSE 0) + 2 * BitOr(x \div 2, y \div 2)

WeakReset == [a |-> 0, b |-> 0]
RECURSIVE WeakWriteFrom(_, _, _)
WeakWriteFrom(weak, buf, i) ==
    IF i >= Len(buf) THEN weak
    ELSE WeakWriteFrom([a |-> weak.a + buf[i + 1],
                        b |-> weak.b + (Len(buf) - i) * buf[i + 1]], buf, i + 1)
WeakWrite(weak, buf) == WeakWriteFrom(weak, buf, 0)
\* Write of a buffer of n bytes that all have the value v: the sums of the
\* loop in closed form.
WeakWriteRun(weak, n, v) == [a |-> weak.a + n * v, b |-> weak.b + v * ((n * (n + 1)) \div 2)]
\* Get: weak.b << 16 | weak.a in an int of 32 bits, as its upper and its
\* lower 16 bits.
WeakGet(weak) ==
    [high |-> BitOr(weak.b % 65536, (weak.a \div 65536) % 65536), low |-> weak.a % 65536]
WeakRoll_OldSum(weak, removedByte, newByte) ==
    [a |-> weak.a - (removedByte - newByte), b |-> weak.b - (removedByte * BLOCKSIZE - weak.a)]
WeakRoll(weak, removedByte, newByte) ==
    LET a == weak.a - (removedByte - newByte)
    IN [a |-> a, b |-> weak.b - (removedByte * BLOCKSIZE - a)]

Min(x, y) == IF x < y THEN x ELSE y
Max(x, y) == IF x > y THEN x ELSE y

\* IndexFile / IndexBlock: one block per non-empty BLOCKSIZE chunk.
BlockCount(data) == (Len(data) + BLOCKSIZE - 1) \div BLOCKSIZE
BlockBytes(data, pos) == SubSeq(data, pos * BLOCKSIZE + 1, Min((pos + 1) * BLOCKSIZE, Len(data)))
IndexBlock(buf, pos) ==
    [Position |-> pos, Weak |-> WeakGet(WeakWrite(WeakReset, buf)), Strong |-> buf]
\* The read loop of IndexFile at file offset off with blockNum blocks so
\* far: f.Read fills the buffer with what is left, up to BLOCKSIZE bytes.
RECURSIVE IndexFileFrom_EmptyLast(_, _, _, _)
IndexFileFrom_EmptyLast(data, off, blockNum, blocks) ==
    LET rd == Min(BLOCKSIZE, Len(data) - off)
        more == Append(blocks, IndexBlock(SubSeq(data, off + 1, off + rd), blockNum))
    IN IF rd = 0 THEN more
       ELSE IndexFileFrom_EmptyLast(data, off + rd, blockNum + 1, more)
RECURSIVE IndexFileFrom(_, _, _, _)
IndexFileFrom(data, off, blockNum, blocks) ==
    LET rd == Min(BLOCKSIZE, Len(data) - off)
    IN IF rd = 0 THEN blocks
       ELSE IndexFileFrom(data, off + rd, blockNum + 1,
                          Append(blocks, IndexBlock(SubSeq(data, off + 1, off + rd), blockNum)))
IndexFile(data) == IndexFileFrom(data, 0, 0, <<>>)
Offset(block) == block.Position * BLOCKSIZE

----------------------------------------------------------------------------
(* The block matcher: an rsync-style scan of the destination file for the *)
(* blocks of the source file.                                              *)

\* The first source block with the window's weak checksum whose strong
\* checksum equals the window's; 0 when there is none.
Candidate_WeakOnly(blocks, weak, window) ==
    LET hits == {i \in 1..Len(blocks) : blocks[i].Weak = WeakGet(weak)}
    IN IF hits = {} THEN 0 ELSE CHOOSE i \in hits : \A j \in hits : i <= j
Candidate(blocks, weak, window) ==
    LET hits == {i \in 1..Len(blocks) :
                    blocks[i].Weak = WeakGet(weak) /\ blocks[i].Strong = window}
    IN IF hits = {} THEN 0 ELSE CHOOSE i \in hits : \A j \in hits : i <= j

RECURSIVE Scan(_, _, _, _, _, _)
Scan(blocks, dstData, o, wlen, weak, matches) ==
    IF wlen = 0 THEN matches
    ELSE LET window == SubSeq(dstData, o + 1, o + wlen)
             hit == Candidate(blocks, weak, window)
         IN IF hit # 0
            THEN LET taken == \E i \in 1..Len(matches) : matches[i].SrcBlock = blocks[hit]
                     found == IF taken THEN matches
                              ELSE Append(matches, [SrcBlock |-> blocks[hit], DstOffset |-> o])
                     next == o + wlen
                     nlen == Min(BLOCKSIZE, Len(dstData) - next)
                 IN Scan(blocks, dstData, next, nlen,
                         WeakWrite(WeakReset, SubSeq(dstData, next + 1, next + nlen)), found)
            ELSE IF o + wlen < Len(dstData)
                 THEN Scan(blocks, dstData, o + 1, wlen,
                           WeakRoll(weak, dstData[o + 1], dstData[o + wlen + 1]), matches)
                 ELSE matches

MatchFile(srcData, dstData) ==
    LET first == Min(BLOCKSIZE, Len(dstData))
    IN [SrcSize |-> Len(srcData),
        BlockMatches |-> Scan(IndexFile(srcData), dstData, 0, first,
                              WeakWrite(WeakReset, SubSeq(dstData, 1, first)), <<>>)]

\* NotMatched: the maximal source ranges [From, To) no matched block claims.
Matched(match, pos) ==
    \E i \in 1..Len(match.BlockMatches) : match.BlockMatches[i].SrcBlock.Position = pos
RECURSIVE NotMatchedFrom_LateClose(_, _, _)
NotMatchedFrom_LateClose(match, pos, open) ==
    LET n == (match.SrcSize + BLOCKSIZE - 1) \div BLOCKSIZE
    IN IF pos >= n
       THEN (IF open >= 0 THEN <<[From |-> open, To |-> match.SrcSize]>> ELSE <<>>)
       ELSE IF Matched(match, pos)
            THEN (IF open >= 0
                  THEN <<[From |-> open, To |-> Min((pos + 1) * BLOCKSIZE, match.SrcSize)]>>
                  ELSE <<>>)
                 \o NotMatchedFrom_LateClose(match, pos + 1, -1)
            ELSE NotMatchedFrom_LateClose(match, pos + 1, IF open >= 0 THEN open ELSE pos * BLOCKSIZE)
RECURSIVE NotMatchedFrom(_, _, _)
NotMatchedFrom(match, pos, open) ==
    LET n == (match.SrcSize + BLOCKSIZE - 1) \div BLOCKSIZE
    IN IF pos >= n
       THEN (IF open >= 0 THEN <<[From |-> open, To |-> match.SrcSize]>> ELSE <<>>)
       ELSE IF Matched(match, pos)
            THEN (IF open >= 0 THEN <<[From |-> open, To |-> pos * BLOCKSIZE]>> ELSE <<>>)
                 \o NotMatchedFrom(match, pos + 1, -1)
            ELSE NotMatchedFrom(match, pos + 1, IF open >= 0 THEN open ELSE pos * BLOCKSIZE)
NotMatched(match) ==
    IF match.SrcSize = 0 THEN <<[From |-> 0, To |-> 0]>> ELSE NotMatchedFrom(match, 0, -1)

----------------------------------------------------------------------------
(* The destination repository: one node per strong checksum and kind.     *)

FilePaths(t) == {p \in DOMAIN t : t[p].kind = "file"}
DirPaths(t) == {p \in DOMAIN t : t[p].kind = "dir"}
\* Every way a strong -> node map can have been filled while indexing t.
Repos(t) ==
    [file : {f \in [{Strong(t, p) : p \in FilePaths(t)} -> FilePaths(t)] :
                \A s \in DOMAIN f : Strong(t, f[s]) = s},
     dir : {f \in [{Strong(t, p) : p \in DirPaths(t)} -> DirPaths(t)] :
                \A s \in DOMAIN f : Strong(t, f[s]) = s}]

----------------------------------------------------------------------------
(* Patch commands.  Paths are relative paths (LocalPath.RelPath); abs      *)
(* tells that the RelPath field holds the path already joined with the     *)
(* store root.  Temp is the plan index of the command's LocalTemp.          *)

NoCmd ==
    [op |-> "", From |-> <<>>, To |-> <<>>, Path |-> <<>>, abs |-> FALSE, Size |-> 0,
     Temp |-> 0, LocalOffset |-> 0, SrcOffset |-> 0, TempOffset |-> 0, Length |-> 0,
     SrcStrong |-> <<>>]
Transfer_Swapped(from, to) == [NoCmd EXCEPT !.op = "Transfer", !.From = to, !.To = from]
Transfer(from, to) == [NoCmd EXCEPT !.op = "Transfer", !.From = from, !.To = to]
Keep(path) == [NoCmd EXCEPT !.op = "Keep", !.Path = path]
Conflict(path, abs) == [NoCmd EXCEPT !.op = "Conflict", !.Path = path, !.abs = abs]
SrcFileDownload(strong, path) ==
    [NoCmd EXCEPT !.op = "SrcFileDownload", !.SrcStrong = strong, !.Path = path,
                  !.Length = Len(strong)]
LocalTemp(path, size) == [NoCmd EXCEPT !.op = "LocalTemp", !.Path = path, !.Size = size]
LocalTempCopy(temp, localOffset, tempOffset, length) ==
    [NoCmd EXCEPT !.op = "LocalTempCopy", !.Temp = temp, !.LocalOffset = localOffset,
                  !.TempOffset = tempOffset, !.Length = length]
SrcTempCopy(temp, strong, srcOffset, tempOffset, length) ==
    [NoCmd EXCEPT !.op = "SrcTempCopy", !.Temp = temp, !.SrcStrong = strong,
                  !.SrcOffset = srcOffset, !.TempOffset = tempOffset, !.Length = length]
ReplaceWithTemp(temp) == [NoCmd EXCEPT !.op = "ReplaceWithTemp", !.Temp = temp]

Ref(refs, p) == IF p \in DOMAIN refs THEN refs[p] ELSE 0
IncRef_Twice(refs, p) ==
    [q \in DOMAIN refs \cup {p} |-> IF q = p THEN Ref(refs, p) + 2 ELSE refs[q]]
IncRef(refs, p) == [q \in DOMAIN refs \cup {p} |-> IF q = p THEN Ref(refs, p) + 1 ELSE refs[q]]
DecRef_Stuck(refs, p) == [q \in DOMAIN refs \cup {p} |-> IF q = p THEN Ref(refs, p) ELSE refs[q]]
DecRef_Twice(refs, p) ==
    [q \in DOMAIN refs \cup {p} |-> IF q = p THEN Ref(refs, p) - 2 ELSE refs[q]]
DecRef(refs, p) == [q \in DOMAIN refs \cup {p} |-> IF q = p THEN Ref(refs, p) - 1 ELSE refs[q]]

----------------------------------------------------------------------------
(* NewPatchPlan.                                                           *)

LocalTempCopies(temp, srcSize, blockMatches) ==
    [i \in 1..Len(blockMatches) |->
        LocalTempCopy(temp, Offset(blockMatches[i].SrcBlock), blockMatches[i].DstOffset,
                      Min(srcSize - Offset(blockMatches[i].SrcBlock), BLOCKSIZE))]
SrcTempCopies(temp, strong, ranges) ==
    [i \in 1..Len(ranges) |->
        SrcTempCopy(temp, strong, ranges[i].From, ranges[i].From, ranges[i].To - ranges[i].From)]

\* appendFilePlan: the commands appended for srcFile at dstPath when the
\* plan already holds n commands.
appendFilePlan_NoReplace(n, srcData, dstData, dstPath) ==
    LET match == MatchFile(srcData, dstData)
    IN <<LocalTemp(dstPath, match.SrcSize)>>
       \o LocalTempCopies(n + 1, match.SrcSize, match.BlockMatches)
       \o SrcTempCopies(n + 1, srcData, NotMatched(match))
appendFilePlan(n, srcData, dstData, dstPath) ==
    LET match == MatchFile(srcData, dstData)
    IN <<LocalTemp(dstPath, match.SrcSize)>>
       \o LocalTempCopies(n + 1, match.SrcSize, match.BlockMatches)
       \o SrcTempCopies(n + 1, srcData, NotMatched(match))
       \o <<ReplaceWithTemp(n + 1)>>

\* The visitor of the source walk at source node srcPath; disk is the
\* destination filesystem, plan the plan built so far.
VisitSrc(srcTree, repo, disk, plan, srcPath) ==
    LET isSrcFile == srcTree[srcPath].kind = "file"
        srcStrong == Strong(srcTree, srcPath)
        hasFile == srcStrong \in DOMAIN repo.file
        hasDstNode == hasFile \/ srcStrong \in DOMAIN repo.dir
        isDstFile == hasFile
        dstPath == IF hasFile THEN repo.file[srcStrong] ELSE repo.dir[srcStrong]
        hasInfo == srcPath \in DOMAIN disk
        unmatch == plan.dstFileUnmatch \ {srcPath}
    IN IF hasDstNode /\ isSrcFile = isDstFile
       THEN [Cmds |-> Append(plan.Cmds, IF srcPath # dstPath THEN Transfer(dstPath, srcPath)
                                        ELSE Keep(srcPath)),
             dstFileUnmatch |-> unmatch,
             relocRefs |-> IncRef(plan.relocRefs, dstPath)]
       ELSE IF isSrcFile
       THEN [Cmds |-> IF hasInfo /\ disk[srcPath].kind # "file"
                      THEN plan.Cmds \o <<Conflict(srcPath, FALSE),
                                          SrcFileDownload(srcStrong, srcPath)>>
                      ELSE IF ~hasInfo
                      THEN Append(plan.Cmds, SrcFileDownload(srcStrong, srcPath))
                      ELSE plan.Cmds \o appendFilePlan(Len(plan.Cmds), srcTree[srcPath].data,
                                                       disk[srcPath].data, srcPath),
             dstFileUnmatch |-> unmatch,
             relocRefs |-> plan.relocRefs]
       ELSE [Cmds |-> IF hasInfo /\ disk[srcPath].kind # "dir"
                      THEN Append(plan.Cmds, Conflict(srcPath, TRUE))
                      ELSE plan.Cmds,
             dstFileUnmatch |-> unmatch,
             relocRefs |-> plan.relocRefs]

RECURSIVE WalkSrc(_, _, _, _, _)
WalkSrc(srcTree, repo, disk, plan, order) ==
    IF order = <<>> THEN plan
    ELSE WalkSrc(srcTree, repo, disk, VisitSrc(srcTree, repo, disk, plan, Head(order)),
                 Tail(order))

NewPatchPlan_DirsToo(srcTree, dstTree, repo, disk) ==
    WalkSrc(srcTree, repo, disk,
            [Cmds |-> <<>>, dstFileUnmatch |-> DOMAIN dstTree, relocRefs |-> <<>>],
            WalkOrder(srcTree, <<<<>>>>))
NewPatchPlan(srcTree, dstTree, repo, disk) ==
    WalkSrc(srcTree, repo, disk,
            [Cmds |-> <<>>, dstFileUnmatch |-> FilePaths(dstTree), relocRefs |-> <<>>],
            WalkOrder(srcTree, <<<<>>>>))

----------------------------------------------------------------------------
(* The operating system calls the commands make on the destination disk.   *)
(* Each yields [ok, disk]: whether it succeeded and the disk afterwards.   *)

Without(disk, gone) == [q \in DOMAIN disk \ gone |-> disk[q]]
Beneath(disk, p) == {q \in DOMAIN disk : IsPrefix(p, q)}

RECURSIVE MkdirAll(_, _)
MkdirAll(disk, d) ==
    IF d \in DOMAIN disk THEN [ok |-> disk[d].kind = "dir", disk |-> disk]
    ELSE LET up == MkdirAll(disk, Parent(d))
         IN IF up.ok THEN [ok |-> TRUE, disk |-> (d :> DirEntry) @@ up.disk] ELSE up

\* mkParentDirs: the parent of the store root lies outside the store.
mkParentDirs_NoDirs(disk, path) == [ok |-> TRUE, disk |-> disk]
mkParentDirs(disk, path) ==
    IF path = <<>> THEN [ok |-> TRUE, disk |-> disk] ELSE MkdirAll(disk, Parent(path))

\* os.Create
Create(disk, p) ==
    IF p # <<>> /\ IsDir(disk, Parent(p)) /\ ~IsDir(disk, p)
    THEN [ok |-> TRUE, disk |-> (p :> FileEntry(<<>>)) @@ Without(disk, {p})]
    ELSE [ok |-> FALSE, disk |-> disk]

\* os.Remove: a file or an empty directory.
Remove(disk, p) ==
    IF p # <<>> /\ p \in DOMAIN disk /\ Children(disk, p) = {}
    THEN [ok |-> TRUE, disk |-> Without(disk, {p})]
    ELSE [ok |-> FALSE, disk |-> disk]

\* os.RemoveAll
RemoveAll(disk, p) == Without(disk, Beneath(disk, p))

\* fs.Move: rename from to to.
Move(disk, from, to) ==
    LET moved == Beneath(disk, from)
        okay == /\ from \in DOMAIN disk
                /\ from # <<>> /\ to # <<>>
                /\ IsDir(disk, Parent(to))
                /\ ~(from # to /\ IsPrefix(from, to))
                /\ to \in DOMAIN disk /\ to # from =>
                      /\ disk[to].kind = disk[from].kind
                      /\ Children(disk, to) = {}
        rest == Without(disk, moved \cup {to})
    IN IF ~okay THEN [ok |-> FALSE, disk |-> disk]
       ELSE IF from = to THEN [ok |-> TRUE, disk |-> disk]
       ELSE [ok |-> TRUE,
             disk |-> [q \in DOMAIN rest \cup {to \o SubSeq(m, Len(from) + 1, Len(m)) : m \in moved} |->
                          IF IsPrefix(to, q)
                          THEN disk[from \o SubSeq(q, Len(to) + 1, Len(q))]
                          ELSE rest[q]]]

\* Writing bytes at offset off of a file: the file grows, zero-filled, as needed.
WriteAt(data, off, bytes) ==
    [i \in 1..Max(Len(data), off + Len(bytes)) |->
        IF i > off /\ i <= off + Len(bytes) THEN bytes[i - off]
        ELSE IF i <= Len(data) THEN data[i] ELSE 0]
\* The bytes a read of n bytes at offset off returns.
ReadAt(data, off, n) == SubSeq(data, off + 1, Min(off + n, Len(data)))
Truncate(data, size) == [i \in 1..size |-> IF i <= Len(data) THEN data[i] ELSE 0]

----------------------------------------------------------------------------
(* State.                                                                  *)

VARIABLES
    src,            \* the indexed source tree
    dst,            \* the destination tree as indexed by NewLocalStore
    repo,           \* the destination repository's strong -> node maps
    disk,           \* the destination filesystem below the store root
    relocs,         \* localBase.relocs: relative path -> relocated relative path
    nreloc,         \* relocation names handed out so far
    ntemp,          \* temp file names handed out so far
    Cmds,           \* PatchPlan.Cmds
    dstFileUnmatch, \* PatchPlan.dstFileUnmatch (its keys)
    relocRefs,      \* the relocRefs map shared by the plan's Transfers
    phase,          \* "new", "exec", "failed", "done" or "cleaned"
    ip,             \* index of the next command Exec applies
    temps,          \* per executed LocalTemp (by plan index): its two handles
    conflicts,      \* relocPath of the Conflicts Exec has collected
    failedCmd,      \* index of the command Exec returned, 0 for nil
    ran,            \* per applied command: the branch its Exec took
    errs,           \* per applied command: whether its Exec returned a nil error
    errors,         \* the paths whose error Clean sent to its channel
    modesSet,       \* whether SetMode has run
    chmods,         \* the mode bits SetMode gave to paths of the disk
    modeErrors,     \* the source paths whose error SetMode sent to its channel
    fileMatch,      \* a FileMatch handed to NotMatched
    notMatched,     \* the ranges NotMatched returned for it
    input,          \* the bytes handed to the blocks package
    checksum,       \* a WeakChecksum: its fields a and b
    rolls,          \* the Roll calls made on checksum since its Write
    weakValue,      \* what WeakChecksum.Get returned
    index,          \* the blocks IndexFile returned
    handles,        \* the open file handles: the command that opened each, and which
    readBlock,      \* the strong checksum handed to ReadBlock and what it returned
    round,          \* 1 for the first patch, 2 for a patch back onto its result
    again,          \* whether Exec was called a second time on the plan
    fault,          \* the system call that returned an error to a command, "" for none
    blockIndex      \* the BlockIndex IndexBlocks returned: its WeakMap and StrongMap

vars == <<src, dst, repo, disk, relocs, nreloc, ntemp, Cmds, dstFileUnmatch, relocRefs,
          phase, ip, temps, conflicts, failedCmd, ran, errs, errors, modesSet, chmods,
          modeErrors, fileMatch, notMatched, input, checksum, rolls, weakValue, index,
          handles, readBlock, round, again, fault, blockIndex>>
matchVars == <<fileMatch, notMatched>>
blockVars == <<input, checksum, rolls, weakValue, index, blockIndex>>
\* No call of ReadBlock has been made.
NoRead == [strong |-> <<>>, known |-> FALSE, isNil |-> TRUE, bytes |-> <<>>, err |-> ""]
\* No call into the blocks package has been made.
NoIndex == [WeakMap |-> <<>>, StrongMap |-> <<>>]
NoBlocks ==
    /\ input = <<>> /\ checksum = WeakReset /\ rolls = 0 /\ weakValue = WeakGet(WeakReset)
    /\ index = <<>> /\ blockIndex = NoIndex
modeVars == <<modesSet, chmods, modeErrors>>

Init ==
    /\ \E fam \in Families :
          /\ dst \in fam.dst
          /\ repo \in Repos(dst)
          /\ src \in fam.src
    /\ disk = dst
    /\ relocs = <<>>
    /\ nreloc = 0
    /\ ntemp = 0
    /\ Cmds = <<>>
    /\ dstFileUnmatch = {}
    /\ relocRefs = <<>>
    /\ phase = "new"
    /\ ip = 0
    /\ temps = <<>>
    /\ conflicts = <<>>
    /\ failedCmd = 0
    /\ ran = <<>>
    /\ errs = <<>>
    /\ errors = {}
    /\ modesSet = FALSE
    /\ chmods = <<>>
    /\ modeErrors = {}
    /\ fileMatch = [SrcSize |-> 0, BlockMatches |-> <<>>]
    /\ notMatched = <<>>
    /\ NoBlocks
    /\ handles = {}
    /\ readBlock = NoRead
    /\ round = 1
    /\ again = FALSE
    /\ fault = ""

\* localBase.Resolve, as a path below the store root.
Resolve(relpath) == IF relpath \in DOMAIN relocs THEN relocs[relpath] ELSE relpath

\* localBase.Relocate of the path held by a Conflict.  A path that was not
\* joined with the store root names an entry relative to the working
\* directory of the process, where the model has no entry.
Relocate_NoRecord(path, abs) ==
    LET relocFullpath == <<RelocNames[nreloc + 1]>>
        mv == Move(disk, path, relocFullpath)
    IN IF abs /\ mv.ok
       THEN [ok |-> TRUE, disk |-> mv.disk, relocFullpath |-> relocFullpath, relocs |-> relocs]
       ELSE [ok |-> FALSE, disk |-> disk, relocFullpath |-> <<>>, relocs |-> relocs]
Relocate(path, abs) ==
    LET relocFullpath == <<RelocNames[nreloc + 1]>>
        mv == Move(disk, path, relocFullpath)
    IN IF abs /\ mv.ok
       THEN [ok |-> TRUE, disk |-> mv.disk, relocFullpath |-> relocFullpath,
             relocs |-> (path :> relocFullpath) @@ relocs]
       ELSE [ok |-> FALSE, disk |-> disk, relocFullpath |-> <<>>, relocs |-> relocs]

DoNewPatchPlan ==
    /\ phase = "new"
    /\ LET plan == NewPatchPlan(src, dst, repo, disk)
       IN /\ Cmds' = plan.Cmds
          /\ dstFileUnmatch' = plan.dstFileUnmatch
          /\ relocRefs' = plan.relocRefs
    /\ phase' = "exec"
    /\ ip' = 1
    /\ UNCHANGED modeVars
    /\ UNCHANGED matchVars
    /\ UNCHANGED blockVars
    /\ UNCHANGED <<readBlock, round, again, fault>>
    /\ UNCHANGED handles
    /\ UNCHANGED <<src, dst, repo, disk, relocs, nreloc, ntemp, temps, conflicts,
                   failedCmd, ran, errs, errors>>

\* A file handle that the command at plan index i opened and did not close:
\* localFh and tempFh of a LocalTemp, dstFh of a SrcFileDownload, fh of the
\* source store's readInto.
Handle(i, fh) == [cmd |-> i, fh |-> fh]

\* PatchPlan.Exec has reached a command with the given op.
At(op) == phase = "exec" /\ ip <= Len(Cmds) /\ Cmds[ip].op = op
cmd == Cmds[ip]

\* The loop of PatchPlan.Exec after cmd.Exec returned.
Applied_Continues(ok, branch) ==
    /\ ran' = Append(ran, branch)
    /\ errs' = Append(errs, ok)
    /\ ip' = ip + 1 /\ phase' = "exec" /\ failedCmd' = 0
Applied(ok, branch) ==
    /\ ran' = Append(ran, branch)
    /\ errs' = Append(errs, ok)
    /\ IF ok THEN ip' = ip + 1 /\ phase' = "exec" /\ failedCmd' = 0
       ELSE ip' = ip /\ phase' = "failed" /\ failedCmd' = ip

TransferCopy(from, to) ==
    LET mk == mkParentDirs(disk, to)
        cr == Create(mk.disk, to)
    IN IF ~mk.ok THEN mk
       ELSE IF from \notin DOMAIN mk.disk THEN [ok |-> FALSE, disk |-> mk.disk]
       ELSE IF ~cr.ok THEN cr
       ELSE IF cr.disk[from].kind = "dir" THEN [ok |-> FALSE, disk |-> cr.disk]
       ELSE [ok |-> TRUE, disk |-> [cr.disk EXCEPT ![to] = FileEntry(cr.disk[from].data)]]

TransferMove(from, to) ==
    LET mk == mkParentDirs(disk, to)
    IN IF ~mk.ok THEN mk ELSE Move(mk.disk, from, to)

\* The switch of Transfer.Exec on the reference count after the decrement.
TransferBranch_MovesBelowZero(refCount) == IF refCount <= 0 THEN "move" ELSE "copy"
TransferBranch(refCount) ==
    IF refCount = 0 THEN "move" ELSE IF refCount > 0 THEN "copy" ELSE "underflow"

TransferExec ==
    /\ At("Transfer")
    /\ relocRefs' = DecRef(relocRefs, cmd.From)
    /\ LET refCount == relocRefs'[cmd.From]
           branch == TransferBranch(refCount)
           res == IF branch = "move" THEN TransferMove(Resolve(cmd.From), Resolve(cmd.To))
                  ELSE IF branch = "copy" THEN TransferCopy(Resolve(cmd.From), Resolve(cmd.To))
                  ELSE [ok |-> FALSE, disk |-> disk]
       IN /\ disk' = res.disk
          /\ Applied(res.ok, branch)
    /\ UNCHANGED modeVars
    /\ UNCHANGED matchVars
    /\ UNCHANGED blockVars
    /\ UNCHANGED <<readBlock, round, again, fault>>
    /\ UNCHANGED handles
    /\ UNCHANGED <<src, dst, repo, relocs, nreloc, ntemp, Cmds, dstFileUnmatch, temps,
                   conflicts, errors>>

KeepExec ==
    /\ At("Keep")
    /\ Applied(TRUE, "keep")
    /\ UNCHANGED modeVars
    /\ UNCHANGED matchVars
    /\ UNCHANGED blockVars
    /\ UNCHANGED <<readBlock, round, again, fault>>
    /\ UNCHANGED handles
    /\ UNCHANGED <<src, dst, repo, disk, relocs, nreloc, ntemp, Cmds, dstFileUnmatch,
                   relocRefs, temps, conflicts, errors>>

ConflictExec ==
    /\ At("Conflict")
    /\ LET res == Relocate(cmd.Path, cmd.abs)
       IN /\ disk' = res.disk
          /\ relocs' = res.relocs
          /\ conflicts' = IF res.ok THEN Append(conflicts, res.relocFullpath) ELSE conflicts
          /\ Applied(res.ok, "relocate")
    /\ nreloc' = nreloc + 1
    /\ UNCHANGED modeVars
    /\ UNCHANGED matchVars
    /\ UNCHANGED blockVars
    /\ UNCHANGED <<readBlock, round, again, fault>>
    /\ UNCHANGED handles
    /\ UNCHANGED <<src, dst, repo, ntemp, Cmds, dstFileUnmatch, relocRefs, temps, errors>>

LocalTempExec ==
    /\ At("LocalTemp")
    /\ LET path == Resolve(cmd.Path)
           tempName == Append(Parent(path), TempNames[ntemp + 1])
       IN IF path \in DOMAIN disk /\ path # <<>>
          THEN /\ disk' = (tempName :> FileEntry(Truncate(<<>>, cmd.Size))) @@ disk
               /\ temps' = (ip :> [localFh |-> disk[path], tempFh |-> tempName, open |-> TRUE])
                           @@ temps
               /\ ntemp' = ntemp + 1
               /\ handles' = handles \cup {Handle(ip, "localFh"), Handle(ip, "tempFh")}
               /\ Applied(TRUE, "temp")
          ELSE /\ UNCHANGED <<disk, temps, ntemp, handles>>
               /\ Applied(FALSE, "temp")
    /\ UNCHANGED modeVars
    /\ UNCHANGED matchVars
    /\ UNCHANGED blockVars
    /\ UNCHANGED <<readBlock, round, again, fault>>
    /\ UNCHANGED <<src, dst, repo, relocs, nreloc, Cmds, dstFileUnmatch, relocRefs,
                   conflicts, errors>>

\* io.Copyn of length bytes read at offset off of data into the temp file
\* at tempOffset: a short read is an error after the bytes read were written.
Copyn(tempFh, tempOffset, data, off, length) ==
    LET bytes == ReadAt(data, off, length)
    IN [ok |-> Len(bytes) = length,
        disk |-> [disk EXCEPT ![tempFh] = FileEntry(WriteAt(disk[tempFh].data, tempOffset, bytes))]]

LocalTempCopyExec ==
    /\ At("LocalTempCopy")
    /\ LET temp == temps[cmd.Temp]
           res == IF temp.localFh.kind = "dir" THEN [ok |-> FALSE, disk |-> disk]
                  ELSE Copyn(temp.tempFh, cmd.TempOffset, temp.localFh.data,
                             cmd.LocalOffset, cmd.Length)
       IN disk' = res.disk /\ Applied(res.ok, "localcopy")
    /\ UNCHANGED modeVars
    /\ UNCHANGED matchVars
    /\ UNCHANGED blockVars
    /\ UNCHANGED <<readBlock, round, again, fault>>
    /\ UNCHANGED handles
    /\ UNCHANGED <<src, dst, repo, relocs, nreloc, ntemp, Cmds, dstFileUnmatch, relocRefs,
                   temps, conflicts, errors>>

SrcTempCopyExec ==
    /\ At("SrcTempCopy")
    /\ LET res == Copyn(temps[cmd.Temp].tempFh, cmd.TempOffset, cmd.SrcStrong,
                        cmd.SrcOffset, cmd.Length)
       IN disk' = res.disk /\ Applied(res.ok, "srccopy")
    /\ handles' = handles \cup {Handle(ip, "fh")}
    /\ UNCHANGED modeVars
    /\ UNCHANGED matchVars
    /\ UNCHANGED blockVars
    /\ UNCHANGED <<readBlock, round, again, fault>>
    /\ UNCHANGED <<src, dst, repo, relocs, nreloc, ntemp, Cmds, dstFileUnmatch, relocRefs,
                   temps, conflicts, errors>>

\* os.Remove of the destination file, then fs.Move of the temp file onto
\* its path, from disk d; failing names the call that the system makes
\* return an error, "" when it lets both through.
ReplaceOutcome_RenamesAnyway(d, path, tempName, failing) ==
    LET rm == IF failing = "remove" THEN [ok |-> FALSE, disk |-> d] ELSE Remove(d, path)
    IN IF failing = "rename" THEN [ok |-> FALSE, disk |-> rm.disk]
       ELSE Move(rm.disk, tempName, path)
ReplaceOutcome(d, path, tempName, failing) ==
    LET rm == IF failing = "remove" THEN [ok |-> FALSE, disk |-> d] ELSE Remove(d, path)
    IN IF ~rm.ok THEN rm
       ELSE IF failing = "rename" THEN [ok |-> FALSE, disk |-> rm.disk]
       ELSE Move(rm.disk, tempName, path)

\* ReplaceWithTemp.Exec while the system makes the call named by failing
\* return an error.
ReplaceWithTempRun(failing) ==
    /\ At("ReplaceWithTemp")
    /\ LET temp == temps[cmd.Temp]
           path == Resolve(Cmds[cmd.Temp].Path)
           res == ReplaceOutcome(disk, path, temp.tempFh, failing)
       IN /\ temps' = [temps EXCEPT ![cmd.Temp].open = FALSE]
          /\ handles' = handles \ {Handle(cmd.Temp, "localFh"), Handle(cmd.Temp, "tempFh")}
          /\ disk' = res.disk
          /\ Applied(res.ok, "replace")
    /\ fault' = failing
    /\ UNCHANGED modeVars
    /\ UNCHANGED matchVars
    /\ UNCHANGED blockVars
    /\ UNCHANGED <<readBlock, round, again>>
    /\ UNCHANGED <<src, dst, repo, relocs, nreloc, ntemp, Cmds, dstFileUnmatch, relocRefs,
                   conflicts, errors>>

\* ReplaceWithTemp.Exec on a system that lets its calls through.
ReplaceWithTempExec == fault = "" /\ ReplaceWithTempRun("")

SrcFileDownloadExec ==
    /\ At("SrcFileDownload")
    /\ LET path == Resolve(cmd.Path)
           mk == mkParentDirs(disk, path)
           cr == Create(mk.disk, path)
           res == IF ~mk.ok THEN mk
                  ELSE IF ~cr.ok THEN cr
                  ELSE [ok |-> TRUE, disk |-> [cr.disk EXCEPT ![path] = FileEntry(cmd.SrcStrong)]]
       IN /\ disk' = res.disk
          /\ handles' = handles \cup (IF mk.ok /\ cr.ok
                                      THEN {Handle(ip, "dstFh"), Handle(ip, "fh")} ELSE {})
          /\ Applied(res.ok, "download")
    /\ UNCHANGED modeVars
    /\ UNCHANGED matchVars
    /\ UNCHANGED blockVars
    /\ UNCHANGED <<readBlock, round, again, fault>>
    /\ UNCHANGED <<src, dst, repo, relocs, nreloc, ntemp, Cmds, dstFileUnmatch, relocRefs,
                   temps, conflicts, errors>>

\* The end of PatchPlan.Exec: Cleanup of every collected Conflict.
CleanupAll_Skipped(d, paths) == d
RECURSIVE CleanupAll(_, _)
CleanupAll(d, paths) ==
    IF paths = <<>> THEN d ELSE CleanupAll(RemoveAll(d, Head(paths)), Tail(paths))

ExecReturn ==
    /\ phase = "exec"
    /\ ip = Len(Cmds) + 1
    /\ disk' = CleanupAll(disk, conflicts)
    /\ phase' = "done"
    /\ UNCHANGED modeVars
    /\ UNCHANGED matchVars
    /\ UNCHANGED blockVars
    /\ UNCHANGED <<readBlock, round, again, fault>>
    /\ UNCHANGED handles
    /\ UNCHANGED <<src, dst, repo, relocs, nreloc, ntemp, Cmds, dstFileUnmatch, relocRefs,
                   ip, temps, conflicts, failedCmd, ran, errs, errors>>

\* The orders in which a range over the map dstFileUnmatch can yield its keys.
Orders(S) ==
    {o \in [1..Cardinality(S) -> S] : \A i, j \in 1..Cardinality(S) : o[i] = o[j] => i = j}

\* The loop of PatchPlan.Clean over the paths, from disk d with the errors
\* er sent so far: a failed os.Remove is sent and the loop goes on.
RECURSIVE CleanPaths_StopsAtError(_, _, _)
CleanPaths_StopsAtError(paths, d, er) ==
    IF paths = <<>> THEN [disk |-> d, errors |-> er]
    ELSE LET rm == Remove(d, Resolve(Head(paths)))
         IN IF rm.ok THEN CleanPaths_StopsAtError(Tail(paths), rm.disk, er)
            ELSE [disk |-> d, errors |-> er \cup {Head(paths)}]
RECURSIVE CleanPaths(_, _, _)
CleanPaths(paths, d, er) ==
    IF paths = <<>> THEN [disk |-> d, errors |-> er]
    ELSE LET rm == Remove(d, Resolve(Head(paths)))
         IN CleanPaths(Tail(paths), rm.disk,
                       IF rm.ok THEN er ELSE er \cup {Head(paths)})

\* PatchPlan.Clean, with an errors channel that is read.
Clean ==
    /\ phase = "done"
    /\ \E order \in Orders(dstFileUnmatch) :
          LET res == CleanPaths(order, disk, {})
          IN /\ disk' = res.disk
             /\ errors' = res.errors
             /\ chmods' = [q \in DOMAIN chmods \cap DOMAIN res.disk |-> chmods[q]]
    /\ phase' = "cleaned"
    /\ UNCHANGED <<modesSet, modeErrors>>
    /\ UNCHANGED matchVars
    /\ UNCHANGED blockVars
    /\ UNCHANGED <<readBlock, round, again, fault>>
    /\ UNCHANGED handles
    /\ UNCHANGED <<src, dst, repo, relocs, nreloc, ntemp, Cmds, dstFileUnmatch, relocRefs,
                   ip, temps, conflicts, failedCmd, ran, errs>>

\* FsNode.Mode of the source node at srcPath: the owner's rwx bits and
\* lower bits that differ from node to node and from one source tree to the
\* other.
RECURSIVE PathCode(_)
PathCode(p) ==
    IF p = <<>> THEN 0
    ELSE 3 * PathCode(Parent(p)) + (CHOOSE i \in 1..Len(NameSeq) : NameSeq[i] = Base(p))
SrcMode(srcPath) == 448 + 9 * (round - 1) + PathCode(srcPath)

\* The walk of PatchPlan.SetMode over the source nodes in order, with the
\* modes ch set and the errors er sent so far: os.Chmod fails on a path
\* that does not exist, the error is sent and the walk goes on.
RECURSIVE SetModeWalk_StopsAtError(_, _, _)
SetModeWalk_StopsAtError(order, ch, er) ==
    IF order = <<>> THEN [chmods |-> ch, errors |-> er]
    ELSE LET srcPath == Head(order)
             absPath == Resolve(srcPath)
         IN IF absPath \in DOMAIN disk
            THEN SetModeWalk_StopsAtError(Tail(order), (absPath :> SrcMode(srcPath)) @@ ch, er)
            ELSE [chmods |-> ch, errors |-> er \cup {srcPath}]
RECURSIVE SetModeWalk(_, _, _)
SetModeWalk(order, ch, er) ==
    IF order = <<>> THEN [chmods |-> ch, errors |-> er]
    ELSE LET srcPath == Head(order)
             absPath == Resolve(srcPath)
         IN IF absPath \in DOMAIN disk
            THEN SetModeWalk(Tail(order), (absPath :> SrcMode(srcPath)) @@ ch, er)
            ELSE SetModeWalk(Tail(order), ch, er \cup {srcPath})

\* PatchPlan.SetMode after an Exec that returned nil, with an errors
\* channel that is read.
SetMode ==
    /\ phase \in {"done", "cleaned"}
    /\ ~modesSet
    /\ LET res == SetModeWalk(WalkOrder(src, <<<<>>>>), chmods, {})
       IN chmods' = res.chmods /\ modeErrors' = res.errors
    /\ modesSet' = TRUE
    /\ UNCHANGED matchVars
    /\ UNCHANGED blockVars
    /\ UNCHANGED <<readBlock, round, again, fault>>
    /\ UNCHANGED handles
    /\ UNCHANGED <<src, dst, repo, disk, relocs, nreloc, ntemp, Cmds, dstFileUnmatch,
                   relocRefs, phase, ip, temps, conflicts, failedCmd, ran, errs, errors>>

Next ==
    \/ DoNewPatchPlan
    \/ TransferExec
    \/ KeepExec
    \/ ConflictExec
    \/ LocalTempExec
    \/ LocalTempCopyExec
    \/ SrcTempCopyExec
    \/ ReplaceWithTempExec
    \/ SrcFileDownloadExec
    \/ ExecReturn
    \/ Clean
    \/ SetMode

Spec == Init /\ [][Next]_vars

----------------------------------------------------------------------------
(* There and back: after a patch from T_a onto a destination equal to T_b  *)
(* (Exec, Clean and SetMode), a patch from T_b onto the result.            *)

RoundInit ==
    /\ Init
    /\ Cardinality(DOMAIN src) <= MaxRoundEntries + 1
    /\ Cardinality(DOMAIN dst) <= MaxRoundEntries + 1

\* The second patch starts: the source store is the first destination
\* tree, and NewLocalStore indexes the patched directory into a new
\* store with no relocations.
Resync ==
    /\ round = 1
    /\ phase = "cleaned"
    /\ modesSet
    /\ src' = dst
    /\ dst' = disk
    /\ repo' \in Repos(disk)
    /\ relocs' = <<>> /\ nreloc' = 0 /\ ntemp' = 0
    /\ Cmds' = <<>> /\ dstFileUnmatch' = {} /\ relocRefs' = <<>>
    /\ phase' = "new" /\ ip' = 0
    /\ temps' = <<>> /\ conflicts' = <<>> /\ failedCmd' = 0
    /\ ran' = <<>> /\ errs' = <<>> /\ errors' = {}
    /\ modesSet' = FALSE /\ modeErrors' = {}
    /\ round' = 2
    /\ UNCHANGED <<disk, chmods, handles, readBlock, again, fault>>
    /\ UNCHANGED matchVars
    /\ UNCHANGED blockVars

RoundNext == Next \/ Resync
RoundSpec == RoundInit /\ [][RoundNext]_vars

----------------------------------------------------------------------------
(* Exec on a system that makes a call of ReplaceWithTemp return an error. *)

ReplaceWithTempFault == \E failing \in {"remove", "rename"} : ReplaceWithTempRun(failing)

FaultNext == Next \/ ReplaceWithTempFault
FaultSpec == Init /\ [][FaultNext]_vars

----------------------------------------------------------------------------
(* A second Exec of the same plan: the reference counts, the relocations  *)
(* of the store and the disk are as the first Exec left them.              *)

AgainInit ==
    /\ Init
    /\ Cardinality(DOMAIN src) <= MaxAgainEntries + 1
    /\ Cardinality(DOMAIN dst) <= MaxAgainEntries + 1

\* PatchPlan.Exec is called again after it returned, with or without a
\* failed command: a new conflicts slice, the loop from the first command.
ExecAgain ==
    /\ ~again
    /\ phase \in {"done", "failed"}
    /\ again' = TRUE
    /\ phase' = "exec" /\ ip' = 1 /\ failedCmd' = 0
    /\ ran' = <<>> /\ errs' = <<>> /\ conflicts' = <<>>
    /\ UNCHANGED modeVars
    /\ UNCHANGED matchVars
    /\ UNCHANGED blockVars
    /\ UNCHANGED <<src, dst, repo, disk, relocs, nreloc, ntemp, Cmds, dstFileUnmatch,
                   relocRefs, temps, errors, handles, readBlock, round, fault>>

AgainNext == Next \/ ExecAgain
AgainSpec == AgainInit /\ [][AgainNext]_vars

----------------------------------------------------------------------------
(* NotMatched on its own: every FileMatch of a source of up to MaxSize     *)
(* bytes, whatever blocks are matched and in whatever order.               *)

\* The sequences without repetition over the set S.
Arrangements(S) == UNION {Orders(T) : T \in SUBSET S}
FileMatches ==
    {[SrcSize |-> n,
      BlockMatches |-> [i \in 1..Len(ps) |->
                          [SrcBlock |-> [Position |-> ps[i], Weak |-> WeakGet(WeakReset), Strong |-> <<>>],
                           DstOffset |-> (i - 1) * BLOCKSIZE]]] :
        n \in 0..MaxSize, ps \in Arrangements(0..((MaxSize + BLOCKSIZE - 1) \div BLOCKSIZE - 1))}

MatchInit ==
    /\ fileMatch \in {m \in FileMatches :
                    \A i \in 1..Len(m.BlockMatches) :
                        Offset(m.BlockMatches[i].SrcBlock) < m.SrcSize}
    /\ notMatched = <<>>
    /\ phase = "match"
    /\ src = OneFile(<<>>) /\ dst = OneFile(<<>>) /\ disk = OneFile(<<>>)
    /\ repo \in Repos(OneFile(<<>>))
    /\ relocs = <<>> /\ nreloc = 0 /\ ntemp = 0
    /\ Cmds = <<>> /\ dstFileUnmatch = {} /\ relocRefs = <<>>
    /\ ip = 0 /\ temps = <<>> /\ conflicts = <<>> /\ failedCmd = 0
    /\ ran = <<>> /\ errs = <<>> /\ errors = {}
    /\ modesSet = FALSE /\ chmods = <<>> /\ modeErrors = {}
    /\ NoBlocks
    /\ handles = {}
    /\ readBlock = NoRead
    /\ round = 1
    /\ again = FALSE
    /\ fault = ""

DoNotMatched ==
    /\ phase = "match"
    /\ notMatched' = NotMatched(fileMatch)
    /\ phase' = "matched"
    /\ UNCHANGED modeVars
    /\ UNCHANGED blockVars
    /\ UNCHANGED <<readBlock, round, again, fault>>
    /\ UNCHANGED handles
    /\ UNCHANGED <<src, dst, repo, disk, relocs, nreloc, ntemp, Cmds, dstFileUnmatch,
                   relocRefs, ip, temps, conflicts, failedCmd, ran, errs, errors, fileMatch>>

MatchSpec == MatchInit /\ [][DoNotMatched]_vars

----------------------------------------------------------------------------
(* The blocks package on its own: the weak checksum written, rolled and    *)
(* read, and IndexFile, over every byte sequence of up to MaxInput bytes,  *)
(* and the weak checksum of runs of one byte long enough for the sum a to  *)
(* pass 16 bits.                                                           *)

Inputs == SeqsUpTo({0, 1, 255}, MaxInput)

\* The state of the patch variables when no plan was ever made.
NoPatch ==
    /\ src = OneFile(<<>>) /\ dst = OneFile(<<>>) /\ disk = OneFile(<<>>)
    /\ repo \in Repos(OneFile(<<>>))
    /\ relocs = <<>> /\ nreloc = 0 /\ ntemp = 0
    /\ Cmds = <<>> /\ dstFileUnmatch = {} /\ relocRefs = <<>>
    /\ ip = 0 /\ temps = <<>> /\ conflicts = <<>> /\ failedCmd = 0
    /\ ran = <<>> /\ errs = <<>> /\ errors = {}
    /\ modesSet = FALSE /\ chmods = <<>> /\ modeErrors = {}
    /\ fileMatch = [SrcSize |-> 0, BlockMatches |-> <<>>] /\ notMatched = <<>>
    /\ handles = {}
    /\ readBlock = NoRead
    /\ round = 1
    /\ again = FALSE
    /\ fault = ""

BlocksInit ==
    /\ input \in Inputs
    /\ checksum = WeakReset /\ rolls = 0 /\ weakValue = WeakGet(WeakReset) /\ index = <<>>
    /\ blockIndex = NoIndex
    /\ phase = "blocks"
    /\ NoPatch

patchVars ==
    <<src, dst, repo, disk, relocs, nreloc, ntemp, Cmds, dstFileUnmatch, relocRefs, ip,
      temps, conflicts, failedCmd, ran, errs, errors, modeVars, matchVars, handles,
      readBlock, round, again, fault>>

\* WeakChecksum.Write of the first window of the input, as the matcher does
\* before it rolls.
WriteWindow ==
    /\ phase = "blocks"
    /\ Len(input) >= BLOCKSIZE
    /\ checksum' = WeakWrite(checksum, SubSeq(input, 1, BLOCKSIZE))
    /\ phase' = "rolling"
    /\ UNCHANGED <<input, rolls, weakValue, index, blockIndex>>
    /\ UNCHANGED patchVars

\* WeakChecksum.Roll by one byte to the window at offset rolls + 1.
Roll ==
    /\ phase = "rolling"
    /\ rolls + BLOCKSIZE < Len(input)
    /\ checksum' = WeakRoll(checksum, input[rolls + 1], input[rolls + BLOCKSIZE + 1])
    /\ rolls' = rolls + 1
    /\ UNCHANGED <<input, phase, weakValue, index, blockIndex>>
    /\ UNCHANGED patchVars

\* WeakChecksum.Write of the whole input, as IndexBlock does with its buffer.
WriteAll ==
    /\ phase = "blocks"
    /\ checksum' = WeakWrite(checksum, input)
    /\ phase' = "written"
    /\ UNCHANGED <<input, rolls, weakValue, index, blockIndex>>
    /\ UNCHANGED patchVars

\* WeakChecksum.Write of a run of one byte, longer than 257 bytes.
WriteRun ==
    /\ phase = "blocks"
    /\ \E n \in 258..(257 + MaxRun), v \in {1, 254, 255} : checksum' = WeakWriteRun(checksum, n, v)
    /\ phase' = "written"
    /\ UNCHANGED <<input, rolls, weakValue, index, blockIndex>>
    /\ UNCHANGED patchVars

\* WeakChecksum.Get
Get ==
    /\ phase \in {"rolling", "written"}
    /\ weakValue' = WeakGet(checksum)
    /\ phase' = "got"
    /\ UNCHANGED <<input, checksum, rolls, index, blockIndex>>
    /\ UNCHANGED patchVars

DoIndexFile ==
    /\ phase = "blocks"
    /\ index' = IndexFile(input)
    /\ phase' = "indexed"
    /\ UNCHANGED <<input, checksum, rolls, weakValue, blockIndex>>
    /\ UNCHANGED patchVars

BlocksNext == WriteWindow \/ Roll \/ WriteAll \/ WriteRun \/ Get \/ DoIndexFile
BlocksSpec == BlocksInit /\ [][BlocksNext]_vars

----------------------------------------------------------------------------
(* The local store's ReadBlock and the flat BlockIndex on their own, over *)
(* an indexed store.                                                       *)

\* The blocks <<0, 1>> and <<1>> of the content <<0, 1, 1>> have one weak
\* checksum.
StoreTrees == TreesOver({<<1>>, <<1, 2>>, <<1, 2, 1>>, <<0, 1, 1>>}, MaxStoreEntries)

\* NodeRepo.Block: the blocks indexed under a strong checksum, as the path
\* of their file and their BlockInfo.
AllBlocks(t) ==
    UNION {{[path |-> f, info |-> IndexFile(t[f].data)[i]] : i \in 1..BlockCount(t[f].data)} :
            f \in FilePaths(t)}
BlocksWith(t, strong) ==
    {b \in AllBlocks(t) : b.info.Strong = strong}

\* localBase.readInto: os.Open, Seek and io.Copyn of length bytes into the
\* writer; a short read is an error after the bytes read were written.
readInto(path, from, length) ==
    IF ~IsFile(disk, path) THEN [n |-> 0, bytes |-> <<>>, ok |-> FALSE]
    ELSE LET got == ReadAt(disk[path].data, from, length)
         IN [n |-> Len(got), bytes |-> got, ok |-> Len(got) = length]

\* localBase.ReadInto
ReadInto(strong, from, length) ==
    IF strong \notin DOMAIN repo.file THEN [n |-> 0, bytes |-> <<>>, ok |-> FALSE]
    ELSE readInto(Resolve(repo.file[strong]), from, length)

\* localBase.ReadBlock, where block is what repo.Block(strong) returned
\* and has whether it returned one.
ReadBlock(strong, has, block) ==
    IF ~has THEN [strong |-> strong, known |-> FALSE, isNil |-> TRUE, bytes |-> <<>>,
                  err |-> "not found"]
    ELSE LET rd == ReadInto(block.Strong, Offset(block), BLOCKSIZE)
         IN IF rd.ok
            THEN [strong |-> strong, known |-> TRUE, isNil |-> TRUE, bytes |-> <<>>,
                  err |-> "nil"]
            ELSE [strong |-> strong, known |-> TRUE, isNil |-> FALSE, bytes |-> rd.bytes,
                  err |-> "nil"]

\* A node of the hierarchical index: the directory or file at path when
\* pos is -1, the block at position pos of the file at path otherwise.
IndexNode(path, pos) == [path |-> path, pos |-> pos]
NodeBlock(t, node) == IndexFile(t[node.path].data)[node.pos + 1]
NodeStrong(t, node) ==
    IF node.pos >= 0 THEN NodeBlock(t, node).Strong ELSE Strong(t, node.path)
\* Child(0) .. Child(ChildCount() - 1): sub-directories then files of a
\* directory, the blocks of a file, nothing for a block.
NodeChildren(t, node) ==
    IF node.pos >= 0 THEN <<>>
    ELSE IF t[node.path].kind = "dir"
    THEN LET kids == SubDirs(t, node.path) \o Files(t, node.path)
         IN [i \in 1..Len(kids) |-> IndexNode(kids[i], -1)]
    ELSE [i \in 1..BlockCount(t[node.path].data) |-> IndexNode(node.path, i - 1)]

\* The visitor of IndexBlocks along the Walk from the nodes of nodestack.
RECURSIVE IndexBlocksWalk(_, _, _)
IndexBlocksWalk(t, nodestack, idx) ==
    IF nodestack = <<>> THEN idx
    ELSE LET current == Head(nodestack)
             visited ==
                 [WeakMap |-> IF current.pos >= 0
                              THEN (NodeBlock(t, current).Weak :> current) @@ idx.WeakMap
                              ELSE idx.WeakMap,
                  StrongMap |-> (NodeStrong(t, current) :> current) @@ idx.StrongMap]
         IN IndexBlocksWalk(t, Tail(nodestack) \o NodeChildren(t, current), visited)
IndexBlocks(t) == IndexBlocksWalk(t, <<IndexNode(<<>>, -1)>>, NoIndex)

StoreInit ==
    /\ dst \in StoreTrees
    /\ repo \in Repos(dst)
    /\ disk = dst
    /\ src = OneFile(<<>>)
    /\ phase = "store"
    /\ relocs = <<>> /\ nreloc = 0 /\ ntemp = 0
    /\ Cmds = <<>> /\ dstFileUnmatch = {} /\ relocRefs = <<>>
    /\ ip = 0 /\ temps = <<>> /\ conflicts = <<>> /\ failedCmd = 0
    /\ ran = <<>> /\ errs = <<>> /\ errors = {}
    /\ modesSet = FALSE /\ chmods = <<>> /\ modeErrors = {}
    /\ fileMatch = [SrcSize |-> 0, BlockMatches |-> <<>>] /\ notMatched = <<>>
    /\ NoBlocks
    /\ handles = {}
    /\ readBlock = NoRead
    /\ round = 1
    /\ again = FALSE
    /\ fault = ""

\* The strong checksums ReadBlock is asked for: those of the store's blocks
\* and two that no block has.
BlockStrongs == {<<1>>, <<2>>, <<1, 2>>, <<2, 1>>}

DoReadBlock ==
    /\ phase = "store"
    /\ \E strong \in BlockStrongs :
          IF BlocksWith(dst, strong) = {}
          THEN readBlock' = ReadBlock(strong, FALSE, IndexBlock(<<>>, 0))
          ELSE \E found \in BlocksWith(dst, strong) :
                  readBlock' = ReadBlock(strong, TRUE, found.info)
    /\ phase' = "read"
    /\ UNCHANGED <<src, dst, repo, disk, relocs, nreloc, ntemp, Cmds, dstFileUnmatch,
                   relocRefs, ip, temps, conflicts, failedCmd, ran, errs, errors, modeVars,
                   matchVars, blockVars, handles, round, again, fault>>

\* IndexBlocks on the root of the store's index.
DoIndexBlocks ==
    /\ phase = "store"
    /\ blockIndex' = IndexBlocks(dst)
    /\ phase' = "flat"
    /\ UNCHANGED <<input, checksum, rolls, weakValue, index>>
    /\ UNCHANGED <<src, dst, repo, disk, relocs, nreloc, ntemp, Cmds, dstFileUnmatch,
                   relocRefs, ip, temps, conflicts, failedCmd, ran, errs, errors, modeVars,
                   matchVars, handles, readBlock, round, again, fault>>

StoreNext == DoReadBlock \/ DoIndexBlocks
StoreSpec == StoreInit /\ [][StoreNext]_vars

----------------------------------------------------------------------------
(* Properties.                                                             *)

Planned == phase = "exec" /\ ip = 1
\* The relative path a command creates or rewrites ("" for Keep and Conflict).
IsWrite(c) == c.op \in {"Transfer", "SrcFileDownload", "LocalTemp"}
Target(c) == IF c.op = "Transfer" THEN c.To ELSE c.Path
\* The plan indexes of the commands with the given op.
Of(op) == {i \in 1..Len(Cmds) : Cmds[i].op = op}

\* C1: after an Exec that returned no failed command and a Clean, the
\* re-indexed destination root has the strong checksum of the source root.
C1_ReplicaAfterClean ==
    phase = "cleaned" => Strong(disk, <<>>) = Strong(src, <<>>)

\* C2: once the ReplaceWithTemp of a file's block plan has run, the file at
\* that path is byte-identical to the source file.
C2_BlockPlanResult ==
    \A i \in Of("ReplaceWithTemp") :
        phase = "exec" /\ ip = i + 1 =>
            LET path == Cmds[Cmds[i].Temp].Path
            IN IsFile(disk, Resolve(path)) /\ disk[Resolve(path)].data = src[path].data

\* C3: the plan of a tree against an identical destination tree is not
\* empty, holds only Keep commands, and executing it leaves the disk as it was.
C3_IdentityOnlyKeeps ==
    phase # "new" /\ src = dst =>
        /\ Len(Cmds) > 0
        /\ \A i \in 1..Len(Cmds) : Cmds[i].op = "Keep"
        /\ disk = dst

\* The destination file the repository yields for the content of source
\* file p lies at another path.
RenamedHit(p) ==
    /\ Strong(src, p) \in DOMAIN repo.file
    /\ repo.file[Strong(src, p)] # p
NoDirMatch == \A d \in DirPaths(src), e \in DirPaths(dst) : Strong(src, d) # Strong(dst, e)
NoDirConflict == \A d \in DirPaths(src) : d \in DOMAIN dst => dst[d].kind = "dir"

\* C4 as stated: with a renamed hit q for source file p and no matching
\* directory, the plan is the single command Transfer from q to p.
IsTransfer(c, from, to) == c.op = "Transfer" /\ c.From = from /\ c.To = to
C4_PlanIsOneTransfer ==
    phase # "new" =>
        \A p \in FilePaths(src) :
            RenamedHit(p) /\ NoDirMatch =>
                Len(Cmds) = 1 /\ IsTransfer(Cmds[1], repo.file[Strong(src, p)], p)

\* C4 amended: with a renamed hit q for source file p, exactly one command
\* of the plan is about p, the Transfer from q to p; it is the whole plan
\* when p is the only source file, no directory matches and no source
\* directory's path holds a non-directory in the destination.
C4_OneTransferForFile ==
    phase # "new" =>
        \A p \in FilePaths(src) :
            RenamedHit(p) =>
                /\ \E i \in 1..Len(Cmds) :
                      /\ IsTransfer(Cmds[i], repo.file[Strong(src, p)], p)
                      /\ \A j \in 1..Len(Cmds) :
                            j # i => Cmds[j].To # p /\ (Cmds[j].op # "Transfer" => Cmds[j].Path # p)
                /\ FilePaths(src) = {p} /\ NoDirMatch /\ NoDirConflict => Len(Cmds) = 1
C4_Witness ==
    /\ Planned
    /\ \E p \in FilePaths(src) :
          RenamedHit(p) /\ FilePaths(src) = {p} /\ NoDirMatch /\ NoDirConflict

\* The plan indexes of the Transfers from p, and their number up to index i.
TransfersFrom(p) == {i \in Of("Transfer") : Cmds[i].From = p}
Kept(p) == \E i \in Of("Keep") : Cmds[i].Path = p

\* C5 as stated: of the N Transfers from p, Exec copies for the first N-1
\* and moves for the last.
C5_LastUseMoves ==
    \A i \in 1..Len(ran) :
        Cmds[i].op = "Transfer" =>
            ran[i] = IF \A j \in TransfersFrom(Cmds[i].From) : j <= i THEN "move" ELSE "copy"

\* C5 amended: the last Transfer from p moves p only when the plan holds no
\* Keep for p; every other Transfer from p copies.
C5_LastUseMovesUnlessKept ==
    \A i \in 1..Len(ran) :
        Cmds[i].op = "Transfer" =>
            ran[i] = IF (\A j \in TransfersFrom(Cmds[i].From) : j <= i) /\ ~Kept(Cmds[i].From)
                     THEN "move" ELSE "copy"
C5_Witness ==
    /\ phase = "done"
    /\ \E i, j \in Of("Transfer") : i < j /\ Cmds[i].From = Cmds[j].From
                                     /\ ran[i] = "copy" /\ ran[j] = "move"
C5_KeptWitness ==
    /\ phase = "done"
    /\ \E i \in Of("Transfer") : Kept(Cmds[i].From) /\ ran[i] = "copy"

\* C6: after NewPatchPlan relocRefs[p] is the number of Transfers from p plus
\* the number of Keeps of p, and no reference count is ever negative.
C6_RefCounts ==
    /\ Planned =>
          \A p \in DOMAIN dst \cup DOMAIN relocRefs :
              Ref(relocRefs, p) = Cardinality(TransfersFrom(p))
                                  + Cardinality({i \in Of("Keep") : Cmds[i].Path = p})
    /\ \A p \in DOMAIN relocRefs : relocRefs[p] >= 0
C6_Witness ==
    /\ phase = "done"
    /\ \E i \in Of("Transfer") : Kept(Cmds[i].From)
    /\ \E p \in DOMAIN relocRefs : relocRefs[p] = 0

\* C7 as stated: a Keep of p that no other command uses leaves relocRefs[p] at 0.
C7_KeepCountsNothing ==
    Planned => \A p \in DOMAIN dst : Kept(p) /\ TransfersFrom(p) = {} => Ref(relocRefs, p) = 0

\* C7 amended: a Keep of p that no other command uses makes relocRefs[p] 1.
C7_KeepCountsOne ==
    Planned => \A p \in DOMAIN dst : Kept(p) /\ TransfersFrom(p) = {} => Ref(relocRefs, p) = 1
C7_Witness == Planned /\ \E p \in DOMAIN dst : Kept(p) /\ TransfersFrom(p) = {}

\* C8: after a successful Exec every kept path still holds what it held,
\* and the target of every Transfer from a kept path exists.
C8_KeepsPreserved ==
    phase = "done" =>
        \A i \in Of("Keep") :
            /\ Cmds[i].Path \in DOMAIN disk
            /\ disk[Cmds[i].Path] = dst[Cmds[i].Path]
            /\ \A j \in TransfersFrom(Cmds[i].Path) : Cmds[j].To \in DOMAIN disk

\* C9: a destination entry of the wrong kind at a source node's path p has
\* a Conflict for p before every command that writes at or below p.
WrongKind(p) == p \in DOMAIN src /\ p \in DOMAIN dst /\ src[p].kind # dst[p].kind
C9_ConflictFirst ==
    Planned =>
        \A p \in DOMAIN src :
            WrongKind(p) =>
                \E i \in Of("Conflict") :
                    /\ Cmds[i].Path = p
                    /\ \A j \in 1..Len(Cmds) :
                          IsWrite(Cmds[j]) /\ IsPrefix(p, Target(Cmds[j])) => i < j

\* C10: after a successful Exec every executed Conflict has been cleaned up
\* and the store root holds no entry named _reloc*.
C10_NoRelocsLeft ==
    phase \in {"done", "cleaned"} =>
        /\ Len(conflicts) = Cardinality(Of("Conflict"))
        /\ \A i \in 1..Len(conflicts) : conflicts[i] \notin DOMAIN disk
        /\ \A q \in DOMAIN disk : Len(q) = 1 => q[1] \notin RelocSet
C10_Witness == phase = "done" /\ conflicts # <<>>

\* The kind of command whose Exec takes the given branch.
OpOf(branch) ==
    CASE branch \in {"move", "copy", "underflow"} -> "Transfer"
      [] branch = "keep" -> "Keep"
      [] branch = "relocate" -> "Conflict"
      [] branch = "temp" -> "LocalTemp"
      [] branch = "localcopy" -> "LocalTempCopy"
      [] branch = "srccopy" -> "SrcTempCopy"
      [] branch = "replace" -> "ReplaceWithTemp"
      [] branch = "download" -> "SrcFileDownload"

\* C11: Exec applies the commands in plan order; the first command that
\* returns an error is the last one applied and the one returned; the
\* Conflict cleanup and the nil return happen only after every command of
\* the plan returned a nil error.
C11_ExecStopsAtFirstError ==
    /\ Len(ran) = Len(errs)
    /\ \A i \in 1..Len(ran) : OpOf(ran[i]) = Cmds[i].op
    /\ \A i \in 1..(Len(errs) - 1) : errs[i]
    /\ phase = "exec" => failedCmd = 0 /\ Len(ran) = ip - 1 /\ \A i \in 1..Len(errs) : errs[i]
    /\ phase = "failed" => failedCmd = Len(ran) /\ ~errs[failedCmd]
    /\ phase \in {"done", "cleaned"} =>
          failedCmd = 0 /\ Len(errs) = Len(Cmds) /\ \A i \in 1..Len(errs) : errs[i]
C11_Witness ==
    /\ phase = "failed"
    /\ failedCmd < Len(Cmds)
    /\ \E i \in 1..Len(conflicts) : conflicts[i] \in DOMAIN disk

\* The source files the planner hands to appendFilePlan: no node of the
\* file's kind has the content, and the path holds a regular file.
BlockMatched(p) ==
    /\ IsFile(src, p)
    /\ Strong(src, p) \notin DOMAIN repo.file
    /\ IsFile(dst, p)
UsesTemp(c) == c.op \in {"LocalTempCopy", "SrcTempCopy", "ReplaceWithTemp"}

\* C12: every block-matched source file has one LocalTemp, sized to the
\* source file, directly followed by one LocalTempCopy per BlockMatch, one
\* SrcTempCopy per unmatched range and one ReplaceWithTemp, all of that
\* temp; every command of a temp comes after its LocalTemp and every
\* LocalTemp has exactly one ReplaceWithTemp.
C12_BlockPlanShape ==
    Planned =>
        /\ \A p \in DOMAIN src :
              BlockMatched(p) <=> \E i \in Of("LocalTemp") : Cmds[i].Path = p
        /\ \A i, j \in Of("LocalTemp") : Cmds[i].Path = Cmds[j].Path => i = j
        /\ \A i \in Of("LocalTemp") :
              LET match == MatchFile(src[Cmds[i].Path].data, dst[Cmds[i].Path].data)
                  k == Len(match.BlockMatches)
                  u == Len(NotMatched(match))
              IN /\ Cmds[i].Size = Len(src[Cmds[i].Path].data)
                 /\ i + k + u + 1 <= Len(Cmds)
                 /\ \A j \in (i + 1)..(i + k) : Cmds[j].op = "LocalTempCopy" /\ Cmds[j].Temp = i
                 /\ \A j \in (i + k + 1)..(i + k + u) : Cmds[j].op = "SrcTempCopy" /\ Cmds[j].Temp = i
                 /\ Cmds[i + k + u + 1].op = "ReplaceWithTemp" /\ Cmds[i + k + u + 1].Temp = i
                 /\ Cardinality({j \in 1..Len(Cmds) : UsesTemp(Cmds[j]) /\ Cmds[j].Temp = i}) = k + u + 1
        /\ \A j \in 1..Len(Cmds) :
              UsesTemp(Cmds[j]) => Cmds[j].Temp \in Of("LocalTemp") /\ Cmds[j].Temp < j
C12_Witness ==
    /\ Planned
    /\ \E i \in Of("LocalTemp") :
          /\ \E j \in Of("LocalTempCopy") : Cmds[j].Temp = i
          /\ \E j \in Of("SrcTempCopy") : Cmds[j].Temp = i
C12_TwoTempsWitness == Planned /\ Cardinality(Of("LocalTemp")) >= 2

\* C13: after planning dstFileUnmatch is the set of destination file paths
\* that are no source path; Clean attempts exactly these paths (each is
\* removed or reported) and removes nothing else, so no source path.
C13_CleanScope ==
    /\ [](phase # "new" => dstFileUnmatch = FilePaths(dst) \ DOMAIN src)
    /\ [][phase = "done" /\ phase' = "cleaned" =>
            /\ DOMAIN disk' \subseteq DOMAIN disk
            /\ \A q \in DOMAIN disk' : disk'[q] = disk[q]
            /\ (DOMAIN disk \ DOMAIN disk') \cup errors' = dstFileUnmatch
            /\ (DOMAIN disk \ DOMAIN disk') \cap DOMAIN src = {}]_vars
C13_Witness ==
    /\ phase = "cleaned"
    /\ \E p \in dstFileUnmatch : p \notin DOMAIN disk /\ p \notin errors
    /\ \E p \in FilePaths(dst) : p \in DOMAIN src

\* C14: a Clean that follows a successful Exec sends no error: every path
\* of dstFileUnmatch is still there and is removed.
C14_CleanNoErrors == phase = "cleaned" => errors = {}

\* C15: after a successful Exec and SetMode every source path exists in the
\* destination with the mode bits of its source node, and SetMode sent no
\* error.
C15_ModesApplied ==
    modesSet =>
        /\ modeErrors = {}
        /\ \A p \in DOMAIN src :
              p \in DOMAIN disk /\ p \in DOMAIN chmods /\ chmods[p] = SrcMode(p)

\* The position of source path p in the walk of SetMode.
WalkIndex(p) ==
    CHOOSE i \in 1..Len(WalkOrder(src, <<<<>>>>)) : WalkOrder(src, <<<<>>>>)[i] = p

\* C16: SetMode and Clean process every path of their walk whatever fails
\* on the way: after Clean every path of dstFileUnmatch is removed or its
\* error was sent, after SetMode every source path has its mode set on the
\* path it resolves to or its error was sent.
C16_WalksGoOn ==
    /\ phase = "cleaned" =>
          /\ errors \subseteq dstFileUnmatch
          /\ \A p \in dstFileUnmatch : p \in DOMAIN disk => p \in errors
    /\ modesSet =>
          /\ modeErrors \subseteq DOMAIN src
          /\ \A p \in DOMAIN src \ modeErrors :
                Resolve(p) \in DOMAIN chmods /\ chmods[Resolve(p)] = SrcMode(p)
C16_Witness ==
    /\ phase = "cleaned" /\ modesSet
    /\ \E p \in modeErrors, q \in DOMAIN src \ modeErrors : WalkIndex(p) < WalkIndex(q)
    /\ errors # {}
    /\ \E p \in dstFileUnmatch \ errors : p \notin DOMAIN disk

\* Every relative path a store may be asked to resolve.
RelPaths == AllPaths \cup {<<n>> : n \in RelocSet}

\* C17: a successful Relocate of the entry at r puts the entry, with all it
\* holds, at a path directly below the root that did not exist and whose
\* name starts with _reloc; nothing remains at r, nothing else on the disk
\* changes, Resolve(r) is that path and Resolve of every other path is as
\* it was.
C17_RelocateMoves ==
    [][At("Conflict") /\ Len(conflicts') = Len(conflicts) + 1 =>
        \E r, new \in RelPaths :
           /\ r = cmd.Path /\ new = conflicts'[Len(conflicts')]
           /\ Len(new) = 1 /\ new[1] \in RelocSet
           /\ new \notin DOMAIN disk
           /\ r \in DOMAIN disk
           /\ \A q \in Beneath(disk, r) :
                 /\ q \notin DOMAIN disk'
                 /\ new \o SubSeq(q, Len(r) + 1, Len(q)) \in DOMAIN disk'
                 /\ disk'[new \o SubSeq(q, Len(r) + 1, Len(q))] = disk[q]
           /\ \A q \in DOMAIN disk' :
                 IF IsPrefix(new, q) THEN r \o SubSeq(q, 2, Len(q)) \in DOMAIN disk
                 ELSE q \in DOMAIN disk /\ disk'[q] = disk[q]
           /\ \A q \in DOMAIN disk \ Beneath(disk, r) : q \in DOMAIN disk'
           /\ Resolve(r)' = new
           /\ \A p \in RelPaths \ {r} : Resolve(p)' = Resolve(p)]_vars
C17_Witness ==
    /\ phase = "exec" /\ ip > 1 /\ Cmds[ip - 1].op = "Conflict"
    /\ conflicts[Len(conflicts)] \in DOMAIN disk
    /\ Len(conflicts) > 1

\* C18: once Exec has run the Cleanup of its Conflicts, Resolve of every
\* relative path is the path itself below the store root again.
C18_ShadowEndsAtCleanup ==
    phase \in {"done", "cleaned"} => \A r \in RelPaths : Resolve(r) = r

\* The source bytes of the matched block at position pos, and of a range.
BlockRange(m, pos) == pos * BLOCKSIZE .. (Min((pos + 1) * BLOCKSIZE, m.SrcSize) - 1)
RangeBytes(r) == r.From .. (r.To - 1)

\* C19: the ranges NotMatched returns are ordered and pairwise disjoint,
\* disjoint from every matched source block range, and together with the
\* matched ranges they cover exactly the bytes 0 .. src_size - 1.
C19_NotMatchedComplement ==
    phase = "matched" =>
        LET matched == UNION {BlockRange(fileMatch, fileMatch.BlockMatches[i].SrcBlock.Position) :
                                 i \in 1..Len(fileMatch.BlockMatches)}
            unmatched == UNION {RangeBytes(notMatched[i]) : i \in 1..Len(notMatched)}
        IN /\ \A i \in 1..Len(notMatched) :
                 0 <= notMatched[i].From /\ notMatched[i].From <= notMatched[i].To
                 /\ notMatched[i].To <= fileMatch.SrcSize
           /\ \A i, j \in 1..Len(notMatched) : i < j => notMatched[i].To <= notMatched[j].From
           /\ matched \cap unmatched = {}
           /\ matched \cup unmatched = 0..(fileMatch.SrcSize - 1)
C19_Witness ==
    /\ phase = "matched"
    /\ Len(notMatched) >= 2
    /\ Len(fileMatch.BlockMatches) >= 2
    /\ fileMatch.SrcSize % BLOCKSIZE # 0

\* The commands of the given op that belong to the LocalTemp at plan index i.
TempCmds(i, op) == {j \in Of(op) : Cmds[j].Temp = i}
\* The weak checksum of a run of bytes.
WeakOf(bytes) == WeakGet(WeakWrite(WeakReset, bytes))
\* The destination window the matcher looks at from offset o.
Window(data, o) == SubSeq(data, o + 1, Min(o + BLOCKSIZE, Len(data)))

\* C20: every BlockMatch of a plan pairs a source block with a destination
\* window of the same bytes (equal strong checksums), and every source
\* block without a BlockMatch lies in a range a SrcTempCopy fetches; so a
\* window that shares only the weak checksum with a block gives no match.
C20_StrongDecides ==
    Planned =>
        \A i \in Of("LocalTemp") :
            LET srcData == src[Cmds[i].Path].data
                dstData == dst[Cmds[i].Path].data
            IN /\ \A j \in TempCmds(i, "LocalTempCopy") :
                     /\ Cmds[j].TempOffset + Cmds[j].Length <= Len(dstData)
                     /\ SubSeq(dstData, Cmds[j].TempOffset + 1, Cmds[j].TempOffset + Cmds[j].Length)
                        = SubSeq(srcData, Cmds[j].LocalOffset + 1,
                                 Cmds[j].LocalOffset + Cmds[j].Length)
               /\ \A pos \in 0..(BlockCount(srcData) - 1) :
                     \/ \E j \in TempCmds(i, "LocalTempCopy") : Cmds[j].LocalOffset = pos * BLOCKSIZE
                     \/ \E k \in TempCmds(i, "SrcTempCopy") :
                           /\ Cmds[k].SrcOffset <= pos * BLOCKSIZE
                           /\ Min((pos + 1) * BLOCKSIZE, Len(srcData))
                              <= Cmds[k].SrcOffset + Cmds[k].Length
C20_Witness ==
    /\ Planned
    /\ \E i \in Of("LocalTemp") :
          LET srcData == src[Cmds[i].Path].data
              dstData == dst[Cmds[i].Path].data
          IN \E pos \in 0..(BlockCount(srcData) - 1), o \in 0..(Len(dstData) - 1) :
                /\ WeakOf(Window(dstData, o)) = WeakOf(BlockBytes(srcData, pos))
                /\ Window(dstData, o) # BlockBytes(srcData, pos)
                /\ \E k \in TempCmds(i, "SrcTempCopy") : Cmds[k].SrcOffset = pos * BLOCKSIZE
                /\ TempCmds(i, "LocalTempCopy") # {}

\* A run written in closed form has the sums the loop of Write gives.
RunIsWrite ==
    \A n \in 0..MaxInput, v \in {0, 1, 255} :
        WeakWriteRun(WeakReset, n, v) = WeakWrite(WeakReset, [i \in 1..n |-> v])

\* C21: the weak checksum rolled from the window at offset 0 to the window
\* at offset o is the checksum a fresh Write of the window at o gives.
C21_RollIsWrite ==
    phase = "rolling" =>
        checksum = WeakWrite(WeakReset, SubSeq(input, rolls + 1, rolls + BLOCKSIZE))
C21_Witness ==
    /\ phase = "rolling" /\ rolls >= 2
    /\ input[rolls] # input[rolls + BLOCKSIZE]
    /\ input[rolls + 1] # input[rolls + BLOCKSIZE]

\* C22: Get returns (b << 16) | (a & 0xFFFF), so the bits of a above bit 15
\* do not reach the value.
C22_GetMasksSum ==
    phase = "got" =>
        weakValue = [high |-> checksum.b % 65536, low |-> checksum.a % 65536]

\* C23: IndexFile of S bytes yields ceil(S / BLOCKSIZE) blocks at positions
\* 0, 1, ... in order; every block but the last covers BLOCKSIZE bytes, the
\* last covers the rest, and an empty file yields no block.
C23_BlocksOfFile ==
    phase = "indexed" =>
        /\ Len(index) = (Len(input) + BLOCKSIZE - 1) \div BLOCKSIZE
        /\ \A i \in 1..Len(index) :
              /\ index[i].Position = i - 1
              /\ Len(index[i].Strong) =
                    IF i < Len(index) THEN BLOCKSIZE ELSE Len(input) - (i - 1) * BLOCKSIZE
              /\ Len(index[i].Strong) > 0
        /\ Len(input) = 0 => index = <<>>
C23_Witness ==
    /\ phase = "indexed" /\ Len(index) >= 2
    /\ Len(index[Len(index)].Strong) < BLOCKSIZE
C23_EmptyWitness == phase = "indexed" /\ input = <<>> /\ index = <<>>

\* The LocalTemp commands Exec has applied whose ReplaceWithTemp it has not.
PendingTemps ==
    {i \in Of("LocalTemp") : i < ip /\ ~\E j \in TempCmds(i, "ReplaceWithTemp") : j < ip}

\* C24: between the commands of Exec the open handles are the two handles
\* of each LocalTemp whose ReplaceWithTemp has not run, and after an Exec
\* that returned no error no handle is open.
C24_HandlesReleased ==
    /\ phase = "exec" =>
          handles = {Handle(i, fh) : i \in PendingTemps, fh \in {"localFh", "tempFh"}}
    /\ phase \in {"done", "cleaned"} => handles = {}

\* The bytes of the block of the store ReadBlock was asked for.
AskedBlocks == BlocksWith(dst, readBlock.strong)

\* C25: ReadBlock of a known block returns the block's bytes and a nil
\* error, or the error of the range read when that fails; ReadBlock of an
\* unknown strong checksum returns a not-found error.
C25_ReadBlockResult ==
    phase = "read" =>
        IF AskedBlocks = {}
        THEN readBlock.err = "not found"
        ELSE \/ readBlock.err = "nil" /\ ~readBlock.isNil /\ readBlock.bytes = readBlock.strong
             \/ readBlock.err = "read" /\ readBlock.isNil

\* C26: after the patch from T_a onto T_b and the patch from T_b onto the
\* result, each with Clean and SetMode, the destination is T_b again: the
\* same paths with the same contents and T_b's modes.
C26_ThereAndBack ==
    round = 2 /\ phase = "cleaned" /\ modesSet =>
        /\ disk = src
        /\ modeErrors = {}
        /\ \A p \in DOMAIN src : p \in DOMAIN chmods /\ chmods[p] = SrcMode(p)

\* C27: the LocalTempCopy emitted for a BlockMatch of source block position
\* p at destination offset o reads the destination file at o, writes the
\* temp file at p * BLOCKSIZE and copies min(BLOCKSIZE, size - p * BLOCKSIZE)
\* bytes.
C27_CopyOffsets ==
    Planned =>
        \A i \in Of("LocalTemp") :
            LET match == MatchFile(src[Cmds[i].Path].data, dst[Cmds[i].Path].data)
            IN \A k \in 1..Len(match.BlockMatches) :
                  LET p == match.BlockMatches[k].SrcBlock.Position
                      o == match.BlockMatches[k].DstOffset
                  IN /\ Cmds[i + k].op = "LocalTempCopy"
                     /\ Cmds[i + k].LocalOffset = o
                     /\ Cmds[i + k].TempOffset = p * BLOCKSIZE
                     /\ Cmds[i + k].Length = Min(BLOCKSIZE, match.SrcSize - p * BLOCKSIZE)

\* The source has a file at p with no content hit and the destination has
\* a directory at p.
FileOverDir(p) ==
    /\ IsFile(src, p) /\ IsDir(dst, p)
    /\ Strong(src, p) \notin DOMAIN repo.file
\* The plan holds Conflict(p) immediately followed by SrcFileDownload(p).
ConflictThenDownload(p) ==
    \E i \in Of("Conflict") :
        /\ Cmds[i].Path = p /\ i < Len(Cmds)
        /\ Cmds[i + 1].op = "SrcFileDownload" /\ Cmds[i + 1].Path = p

\* C28: for a source file at p with no content hit and a destination
\* directory at p the plan holds Conflict(p) immediately followed by
\* SrcFileDownload(p); Exec does not fail at either, and when it has
\* returned p is a regular file with the source content and the relocated
\* directory is deleted.
C28_FileReplacesDir ==
    \A p \in DOMAIN src :
        FileOverDir(p) =>
            /\ phase # "new" => ConflictThenDownload(p)
            /\ phase = "failed" =>
                  ~(Cmds[failedCmd].op \in {"Conflict", "SrcFileDownload"}
                    /\ Cmds[failedCmd].Path = p)
            /\ phase \in {"done", "cleaned"} =>
                  /\ IsFile(disk, p) /\ disk[p].data = src[p].data
                  /\ \A q \in DOMAIN disk \ {<<>>} : q[1] \notin RelocSet
\* The planner's half of C28 alone.
C28_PlanHalf == \A p \in DOMAIN src : FileOverDir(p) /\ phase # "new" => ConflictThenDownload(p)
C28_PlanWitness == Planned /\ \E p \in DOMAIN src : FileOverDir(p) /\ ConflictThenDownload(p)

\* C29: every Conflict of a plan holds the destination path joined with
\* the store root, for a source file as for a source directory.
C29_ConflictPathJoined ==
    Planned => \A i \in Of("Conflict") : Cmds[i].abs

\* The source node the command at plan index i was planned for.
CmdNode(i) ==
    IF Cmds[i].op = "Transfer" THEN Cmds[i].To
    ELSE IF UsesTemp(Cmds[i]) THEN Cmds[Cmds[i].Temp].Path
    ELSE Cmds[i].Path

\* C30: the commands of a plan appear in depth-first pre-order of the
\* source tree: no command for a node in the subtree of a directory d comes
\* after a command for a node in the subtree of a later sibling of d.
C30_DepthFirstOrder ==
    Planned =>
        \A i, j \in 1..Len(Cmds) :
            i < j =>
                \A d \in DirPaths(src) \ {<<>>}, e \in DOMAIN src \ {<<>>} :
                    /\ Parent(d) = Parent(e) /\ d # e
                    /\ WalkIndex(d) < WalkIndex(e)
                    /\ IsPrefix(e, CmdNode(i))
                    => ~IsPrefix(d, CmdNode(j))
\* What the walk does give: the commands appear in the order of the walk.
WalkOrderOfCmds ==
    Planned => \A i, j \in 1..Len(Cmds) : i < j => WalkIndex(CmdNode(i)) <= WalkIndex(CmdNode(j))

\* C31: a Transfer that Exec applies while the reference count of its From
\* is 0 or less returns the underflow error and leaves the disk as it was.
C31_UnderflowFails ==
    [][At("Transfer") /\ Ref(relocRefs, cmd.From) <= 0 =>
          /\ ran' = Append(ran, "underflow")
          /\ phase' = "failed" /\ failedCmd' = ip
          /\ disk' = disk]_vars
C31_Witness ==
    /\ phase = "failed" /\ ran[failedCmd] = "underflow"
    /\ \E p \in DOMAIN dst : Cmds[failedCmd].From = p /\ p \notin DOMAIN disk

\* C32: after IndexBlocks every block of the tree is reachable from its
\* weak checksum in the WeakMap, so two blocks of different strong
\* checksums and one weak checksum are both found under that key.
C32_WeakMapKeepsAll ==
    phase = "flat" =>
        \A b \in AllBlocks(dst) :
            /\ b.info.Weak \in DOMAIN blockIndex.WeakMap
            /\ NodeStrong(dst, blockIndex.WeakMap[b.info.Weak]) = b.info.Strong
\* What the map does hold: under each weak checksum the block of that
\* checksum the walk visited last.
WeakMapKeepsOne ==
    phase = "flat" =>
        /\ DOMAIN blockIndex.WeakMap = {b.info.Weak : b \in AllBlocks(dst)}
        /\ \A w \in DOMAIN blockIndex.WeakMap :
              NodeBlock(dst, blockIndex.WeakMap[w]).Weak = w

\* The source file at p has no content hit among the destination files
\* and the destination has no entry at p.
MissingFile(p) ==
    /\ IsFile(src, p)
    /\ Strong(src, p) \notin DOMAIN repo.file
    /\ p \notin DOMAIN dst

\* C33: for a source file with no content hit and no destination entry at
\* its path p, the one command of the plan for p is a SrcFileDownload of
\* the file to p; Exec does not fail at it, and when it has just run every
\* ancestor of p is a directory and p is a file with the source content.
C33_MissingFileDownloaded ==
    \A p \in DOMAIN src :
        MissingFile(p) /\ phase # "new" =>
            \E i \in Of("SrcFileDownload") :
                /\ Cmds[i] = SrcFileDownload(src[p].data, p)
                /\ \A j \in 1..Len(Cmds) : CmdNode(j) = p => j = i
                /\ ~(phase = "failed" /\ failedCmd = i)
                /\ phase = "exec" /\ ip = i + 1 =>
                      /\ \A q \in AllPaths : IsPrefix(q, p) /\ q # p => IsDir(disk, q)
                      /\ IsFile(disk, p) /\ disk[p].data = src[p].data
C33_Witness ==
    /\ phase = "exec" /\ ip > 1 /\ Cmds[ip - 1].op = "SrcFileDownload"
    /\ MissingFile(Cmds[ip - 1].Path)
    /\ Len(Cmds[ip - 1].Path) = 2 /\ Parent(Cmds[ip - 1].Path) \notin DOMAIN dst
    /\ Cmds[ip - 1].Length > 0
\* The same with a non-directory in the way of the parent directory.
C33_BlockedParentWitness ==
    /\ phase = "exec" /\ ip > 1 /\ Cmds[ip - 1].op = "SrcFileDownload"
    /\ MissingFile(Cmds[ip - 1].Path)
    /\ Len(Cmds[ip - 1].Path) = 2 /\ IsFile(dst, Parent(Cmds[ip - 1].Path))

\* The destination index holds a node of the kind of the source node at p
\* with its strong checksum.
KindHit(p) ==
    IF src[p].kind = "file" THEN Strong(src, p) \in DOMAIN repo.file
    ELSE Strong(src, p) \in DOMAIN repo.dir

\* C34: a source node with a destination node of its kind and strong
\* checksum has a Keep or a Transfer in the plan, also when a destination
\* node of the other kind has that strong checksum.
C34_KindHitPlanned ==
    Planned =>
        \A p \in DOMAIN src :
            KindHit(p) =>
                \E i \in Of("Keep") \cup Of("Transfer") : CmdNode(i) = p
\* The same for the source nodes whose strong checksum no destination
\* node of the other kind has.
KindHitAlonePlanned ==
    Planned =>
        \A p \in DOMAIN src :
            KindHit(p) /\ ~(src[p].kind = "dir" /\ Strong(src, p) \in DOMAIN repo.file) =>
                \E i \in Of("Keep") \cup Of("Transfer") : CmdNode(i) = p

\* C35: ReplaceWithTemp closes both handles of its LocalTemp whatever
\* happens next; when the removal of the destination file fails it returns
\* the error and the disk is as it was, the temp file not renamed; when
\* the rename fails after the removal it returns the error, the
\* destination path is gone and the temp file is still there; otherwise
\* the destination path holds what the temp file held and the temp file
\* is gone.
C35_ReplaceSteps ==
    [][At("ReplaceWithTemp") /\ Len(ran') = Len(ran) + 1 =>
          LET path == Resolve(Cmds[cmd.Temp].Path)
              tempName == temps[cmd.Temp].tempFh
          IN /\ handles' = handles \ {Handle(cmd.Temp, "localFh"), Handle(cmd.Temp, "tempFh")}
             /\ fault' = "remove" =>
                   ~errs'[ip] /\ failedCmd' = ip /\ disk' = disk
             /\ fault' = "rename" =>
                   /\ ~errs'[ip] /\ failedCmd' = ip
                   /\ path \notin DOMAIN disk'
                   /\ tempName \in DOMAIN disk' /\ disk'[tempName] = disk[tempName]
                   /\ disk' = Without(disk, {path})
             /\ fault' = "" =>
                   /\ errs'[ip]
                   /\ IsFile(disk', path) /\ disk'[path] = disk[tempName]
                   /\ tempName \notin DOMAIN disk'
                   /\ Without(disk', {path}) = Without(disk, {path, tempName})]_vars
C35_Witness ==
    /\ phase = "failed" /\ fault = "rename" /\ Cmds[failedCmd].op = "ReplaceWithTemp"
    /\ Cmds[Cmds[failedCmd].Temp].Path \notin DOMAIN disk
    /\ temps[Cmds[failedCmd].Temp].tempFh \in DOMAIN disk
    /\ handles = {}
C35_RemoveWitness ==
    /\ phase = "failed" /\ fault = "remove" /\ Cmds[failedCmd].op = "ReplaceWithTemp"
    /\ Cmds[Cmds[failedCmd].Temp].Path \in DOMAIN disk
    /\ temps[Cmds[failedCmd].Temp].tempFh \in DOMAIN disk

\* The commands that read a destination path: a Transfer reads its From,
\* a LocalTemp opens the file at its Path.
Reads(c) == c.op \in {"Transfer", "LocalTemp"}
ReadPath(c) == IF c.op = "Transfer" THEN c.From ELSE c.Path

\* C36: when a Transfer has moved its From away, no later command of the
\* plan reads that path or a path beneath it.
C36_NoMoveBeforeRead ==
    \A i \in 1..Len(ran) :
        ran[i] = "move" /\ errs[i] =>
            \A j \in (i + 1)..Len(Cmds) :
                Reads(Cmds[j]) => ~IsPrefix(Cmds[i].From, ReadPath(Cmds[j]))
\* The case of files alone: a Transfer that has moved a file away is not
\* followed by a Transfer from that file.
C36_NoMoveBeforeTransfer ==
    \A i \in 1..Len(ran) :
        ran[i] = "move" /\ errs[i] =>
            \A j \in (i + 1)..Len(Cmds) :
                Cmds[j].op = "Transfer" => Cmds[j].From # Cmds[i].From
C36_DirMovedFirst ==
    \E i \in 1..Len(ran) :
        /\ ran[i] = "move" /\ errs[i] /\ IsDir(dst, Cmds[i].From)
        /\ \E j \in (i + 1)..Len(Cmds) :
              /\ Cmds[j].op = "Transfer" /\ Cmds[j].From # Cmds[i].From
              /\ IsPrefix(Cmds[i].From, Cmds[j].From)

\* C37: when Exec reaches a Transfer, the path its From resolves to holds
\* an entry of the kind and strong checksum the destination had at From
\* when the plan was built.
C37_FromUntouched ==
    At("Transfer") =>
        /\ Resolve(cmd.From) \in DOMAIN disk
        /\ disk[Resolve(cmd.From)].kind = dst[cmd.From].kind
        /\ Strong(disk, Resolve(cmd.From)) = Strong(dst, cmd.From)

\* C38: the one Exec of a plan of NewPatchPlan, on the destination as it
\* was indexed and with every source read succeeding, returns no failed
\* command.
C38_ExecNeverFails == phase # "failed"
\* The branches of the commands Exec has returned as failed.
FailedBranches == {"move", "copy", "relocate", "temp", "localcopy"}
OnlyTheseFail == phase = "failed" => ran[failedCmd] \in FailedBranches

\* C39: after an Exec that returned no failed command every directory of
\* the source tree is a directory at the same path of the destination.
C39_SourceDirsExist ==
    phase = "done" => \A d \in DirPaths(src) : IsDir(disk, d)

\* The temp-file bytes the copy command at plan index j writes.
TempRange(j) == Cmds[j].TempOffset .. (Cmds[j].TempOffset + Cmds[j].Length - 1)
CopiesOf(i) == TempCmds(i, "LocalTempCopy") \cup TempCmds(i, "SrcTempCopy")

\* C40: the temp-file ranges of the LocalTempCopy and SrcTempCopy commands
\* of one LocalTemp are pairwise disjoint and their union is exactly the
\* bytes 0 .. Size - 1 of the source file.
C40_TempRangesPartition ==
    Planned =>
        \A i \in Of("LocalTemp") :
            /\ \A j, k \in CopiesOf(i) : j # k => TempRange(j) \cap TempRange(k) = {}
            /\ UNION {TempRange(j) : j \in CopiesOf(i)} = 0 .. (Cmds[i].Size - 1)
\* The same ranges taken at the offset each command reads from (the
\* LocalOffset of a LocalTempCopy is the offset of its block in the source).
SourceRange(j) ==
    IF Cmds[j].op = "LocalTempCopy"
    THEN Cmds[j].LocalOffset .. (Cmds[j].LocalOffset + Cmds[j].Length - 1)
    ELSE TempRange(j)
SourceRangesCover ==
    Planned =>
        \A i \in Of("LocalTemp") :
            UNION {SourceRange(j) : j \in CopiesOf(i)} = 0 .. (Cmds[i].Size - 1)

====
